---- MODULE Spec2Model ----
(***************************************************************************)
(* Model of the LinkedIn auto-apply Application Wizard                     *)
(* (src/apply/application_wizard.py), its Emergency Exit sub-procedure,    *)
(* the outcome ledgers (src/apply/helpers.py save_application_result) and  *)
(* the Answer Store lookup (src/apply/helpers.py get_answer_for_field).    *)
(*                                                                         *)
(* The UI driver is the environment: every driver call either returns a    *)
(* value or raises a driver error; the model enumerates both.              *)
(***************************************************************************)
EXTENDS Integers, Sequences, FiniteSets, TLC

(***************************************************************************)
(* Bounds of the model (not program constants).                            *)
(***************************************************************************)
\* Number of ids the ledger files hold when the wizard is constructed.
MaxLedger == 1
\* Longest label, in text chunks, and largest Answer Store looked up.
MaxLabelLen == 3
MaxStore == 2

(***************************************************************************)
(* Program constants.                                                      *)
(***************************************************************************)
APPLICATION_SUCCESS == "success"
APPLICATION_FAILURE == "failure"
APPLICATION_INCOMPLETE == "incomplete"
max_steps == 8
max_duplicates == 2
max_stuck_attempts == 5

\* Number of positional arguments FormProcessor.__init__ accepts after self.
FormProcessorParams == 2
\* Number of arguments the wizard passes before the loop / inside the loop.
FormProcessorArgsBeforeLoop == 2
FormProcessorArgsInLoop == 3

(***************************************************************************)
(* Exceptions.  A raised exception is a record of its class and message.   *)
(***************************************************************************)
NoExc == [type |-> "none", msg |-> "none"]

\* The driver-specific errors a UI-driver call may raise.
DriverErrors == {"TimeoutError", "PlaywrightError"}

\* isinstance(e, cls) for the exception classes the code names in its
\* except clauses; playwright's TimeoutError derives from its Error.
IsInstance(t, cls) ==
    CASE cls = "Exception"       -> t # "none"
      [] cls = "PlaywrightError" -> t \in {"PlaywrightError", "TimeoutError"}
      [] cls = "TimeoutError"    -> t = "TimeoutError"
      [] OTHER                   -> FALSE

\* The message a driver error of class t carries.
DriverMsg(t) == IF t = "TimeoutError" THEN "Timeout 3000ms exceeded" ELSE "Target closed"

\* FormProcessor(...) called with n positional arguments: binds them or
\* raises TypeError.
FormProcessorInit(n) ==
    IF n = FormProcessorParams THEN "ok" ELSE "TypeError"

(***************************************************************************)
(* Inputs.                                                                 *)
(***************************************************************************)
Absent == "absent"
\* job_data: the keys "id" and "job_id" may each be missing, and "id" may
\* hold the string "unknown".
JobKeys == {<<"j1", Absent>>, <<Absent, "j2">>, <<Absent, Absent>>}
Jobs == {[id |-> k[1], job_id |-> k[2], easy_apply_clicked |-> c] :
            k \in JobKeys, c \in BOOLEAN}
        \cup {[id |-> "unknown", job_id |-> "j2", easy_apply_clicked |-> FALSE]}
JobIds == {"j1", "j2", "unknown"}

\* What the form behind the entry control shows (the page under automation).
\*   submit       : a Submit control is shown
\*   submit_click : "ok" if a click on the Submit control succeeds, "fails" if
\*                  the direct click, the scripted click on the element and
\*                  the page-level scripted click all fail
\*   done         : where a Done control is shown after the submission: in
\*                  the "modal", outside it on the "page", or "none"
\*   next         : some continue control is shown
\*   next_click   : "ok" if every kind of click on the continue control
\*                  succeeds, "page_level" if only a scripted click through a
\*                  page-level query does, "fails" if none does
\*   static       : the modal content never changes and no alternate button exists
FormOf(s_, k, d, n, st) ==
    [submit |-> s_, submit_click |-> k, done |-> d, next |-> n,
     next_click |-> IF n THEN "ok" ELSE "none", static |-> st]
\* A form of several steps that shows a continue control on every step.
ContinueForm(c) == [FormOf(FALSE, "none", "none", TRUE, FALSE) EXCEPT !.next_click = c]
Forms == {FormOf(TRUE,  "ok",    "modal", FALSE, FALSE),
          FormOf(TRUE,  "fails", "page",  FALSE, FALSE),
          FormOf(TRUE,  "ok",    "none",  FALSE, FALSE),
          FormOf(FALSE, "none",  "none",  FALSE, FALSE),
          FormOf(FALSE, "none",  "none",  TRUE,  FALSE),
          FormOf(FALSE, "none",  "none",  TRUE,  TRUE),
          ContinueForm("page_level"),
          ContinueForm("fails")}

Contents == {"html1", "html2"}
None == "None"

VARIABLES
    pc,                      \* position of the wizard
    job_data,                \* argument of the current call
    form,                    \* what the form shows (environment)
    modal,                   \* environment: the form container is present
    step_count,
    previous_form_content,
    duplicate_form_count,
    stuck_detection_count,
    answers,                 \* self.answers, an insertion-ordered dict
    successful_applications, \* self.successful_applications
    failed_applications,     \* self.failed_applications
    ledgerOK,                \* successful_applications.json
    ledgerFail,              \* failed_applications.json
    exc,                     \* exception being handled / propagated
    caught,                  \* the exception e bound by the top-level except
                             \*   clause being executed (NoExc: none is)
    pending,                 \* the failure reason under construction
    saveIdx,                 \* loop index of _save_application_data
    retval,                  \* the status the pending return statement returns
    result,                  \* what the call returned ("raised": it threw)
    close_success,
    discard_success,
    exit_success,            \* value returned by the last Emergency Exit
    eeModalAtEntry,          \* history: modal presence when EE was entered
    eeUi,                    \* history: what the current EE did: "click",
                             \*   "evaluate" (scripted DOM query), "raised"
    eeEscaped,               \* history: an exception left Emergency Exit
    trace,                   \* history: events of the current call
    rec,                     \* ledger specification: the last recording
    field_label,             \* answer specification: the label looked up
    answer,                  \* answer specification: what the lookup returned
    processor,               \* field specification: the processor called
    options,                 \* field specification: the option texts of the field
    generated,               \* field specification: what answer_generator does
    driver,                  \* field specification: what the element's driver calls do
    oracle_calls,            \* history: calls of answer_generator in this call
    chosen,                  \* history: the option selected / text filled in
    processed,               \* what the processor returned
    answers_before,          \* the store the processor was called with
    console,                 \* field specification: what the terminal gave the
                             \*   processor that asked it, "unused" if none did
    checkbox,                \* field specification: the first checkbox of a group,
                             \*   before and after the call, and its page
    cover,                   \* cover-letter specification: the job data the call
                             \*   found, the requests it made and the letter it got
    session                  \* session specification: the CookieManager, the clock
                             \*   and the position of each thread in save_cookies

wizVars == <<pc, job_data, form, modal, step_count, previous_form_content,
             duplicate_form_count, stuck_detection_count, answers,
             successful_applications, failed_applications, ledgerOK, ledgerFail,
             exc, caught, pending, saveIdx, retval, result, close_success,
             discard_success, exit_success, eeModalAtEntry, eeUi, eeEscaped, trace>>

fieldVars == <<processor, options, generated, driver, oracle_calls, chosen, processed,
               answers_before, console, checkbox, cover>>

otherVars == <<rec, field_label, answer, fieldVars, session>>

vars == <<wizVars, otherVars>>

callVars == <<job_data, form, otherVars>>
loopVars == <<step_count, previous_form_content, duplicate_form_count, stuck_detection_count>>
memVars  == <<answers, successful_applications, failed_applications>>
fileVars == <<ledgerOK, ledgerFail>>
eeLocals == <<close_success, discard_success>>
eeHist   == <<eeModalAtEntry, eeUi>>

(***************************************************************************)
(* Insertion-ordered dictionaries (Python dict): sequences of key/value    *)
(* records with pairwise different keys.                                   *)
(***************************************************************************)
HasKey(d, k) == \E i \in 1..Len(d) : d[i].key = k

Lookup(d, k) == d[CHOOSE i \in 1..Len(d) : d[i].key = k].value

\* d[k] = v
Put(d, k, v) ==
    IF HasKey(d, k)
    THEN [i \in 1..Len(d) |-> IF d[i].key = k THEN [key |-> k, value |-> v] ELSE d[i]]
    ELSE Append(d, [key |-> k, value |-> v])

(***************************************************************************)
(* helpers.save_application_result: the ledger file is a JSON list of job  *)
(* ids; the id is appended unless the list already holds it.  A ledger     *)
(* variable holds the list json.load reads from the file; the empty list   *)
(* also stands for a file that is missing or does not parse, which the     *)
(* code reads as [] (lines 45-54).                                         *)
(***************************************************************************)
Elems(s) == {s[i] : i \in 1..Len(s)}

\* What the file system does to one call:
\*   "none"        every operation succeeds;
\*   "unreadable"  reading the existing file raises IOError (lines 51-53);
\*   "no open"     os.makedirs or open(filepath, 'w') raises OSError;
\*   "no write"    open(filepath, 'w') has truncated the file and json.dump
\*                 raises OSError.
LedgerFaults == {"none", "unreadable", "no open", "no write"}

\* Lines 45-54: the list the call starts from.
LoadExisting(file, fault) == IF fault = "unreadable" THEN <<>> ELSE file

\* Lines 57-63 on the loaded list: the list written back.
save_application_result(existing_results, job_id) ==
    IF job_id \notin Elems(existing_results)
    THEN Append(existing_results, job_id)
    ELSE existing_results

\* The call raises: the directory cannot be made, or the id is new and the
\* file cannot be opened or written.
SaveRaises(file, job_id, fault) ==
    \/ fault = "no open"
    \/ fault = "no write" /\ job_id \notin Elems(LoadExisting(file, fault))

\* The ledger file after save_application_result under the given fault.
FileAfter(file, job_id, fault) ==
    CASE fault = "no open"  -> file
      [] fault = "no write" -> IF SaveRaises(file, job_id, fault) THEN <<>> ELSE file
      [] OTHER -> LET existing_results == LoadExisting(file, fault)
                  IN  IF job_id \in Elems(existing_results)
                      THEN file
                      ELSE save_application_result(existing_results, job_id)

\* The id _save_application_data files an entry under (lines 61-62 and
\* 74-75): job["id"] unless it is missing or is the string "unknown", else
\* job["job_id"], else "unknown".
JobIdOf(job) ==
    IF job.id # Absent /\ job.id # "unknown" THEN job.id
    ELSE IF job.job_id # Absent THEN job.job_id
    ELSE "unknown"

(***************************************************************************)
(* Exception propagation inside start_application.  The try block spans    *)
(* the whole attempt; an exception raised inside one of its except clauses *)
(* leaves the call.                                                        *)
(***************************************************************************)
Raised(e) ==
    /\ exc' = e
    /\ IF caught # NoExc
       THEN pc' = "done" /\ result' = "raised"
       ELSE pc' = "Handler" /\ UNCHANGED result

\* The except clause of start_application that takes an exception of class t
\* (clauses are tried in source order) and the prefix of its reason.
HandlerPrefix(t) ==
    IF IsInstance(t, "TimeoutError") THEN "Timeout"
    ELSE IF IsInstance(t, "PlaywrightError") THEN "Playwright error"
    ELSE "Unexpected error"

Reason(text, step, msg) == [text |-> text, step |-> step, msg |-> msg]
NoReason == Reason("none", 0, "none")

(***************************************************************************)
(* The CookieManager of browser/context.py, which get_authenticated_page   *)
(* installs (lines 283-284, 369-370) before the wizard is constructed.     *)
(* Two threads call save_cookies on it: "main" and "periodic" (the daemon  *)
(* thread of _periodic_save_worker).  Time is in seconds.                  *)
(***************************************************************************)
Threads == {"main", "periodic"}

\* The clock runs to MaxClock in steps of TickSeconds.
MaxClock == 150
TickSeconds == 30

\* Lines 24 and 60.
save_interval == 120
min_save_gap == 30

Rest(t) == IF t = "main" THEN "idle" ELSE "waiting"

\* CookieManager.__init__ (lines 33-45) at time 0: the lock is free, the
\* periodic thread has been started and waits.
SessionConstructed ==
    [constructed |-> TRUE,
     pc |-> [t \in Threads |-> Rest(t)],
     save_lock |-> "free",
     last_save_time |-> 0,
     current_time |-> [t \in Threads |-> 0],
     ret |-> [t \in Threads |-> "none"],
     stop |-> FALSE,
     wait_from |-> 0,
     now |-> 0]

\* save_cookies, lines 57-61: the time is read and a save that is not
\* forced is refused within min_save_gap seconds of the last one.
SaveBegin(s, t, force) ==
    IF ~force /\ s.now - s.last_save_time < min_save_gap
    THEN [s EXCEPT !.current_time[t] = s.now, !.ret[t] = "False", !.pc[t] = Rest(t),
                   !.wait_from = IF t = "periodic" THEN s.now ELSE s.wait_from]
    ELSE [s EXCEPT !.current_time[t] = s.now, !.ret[t] = "none", !.pc[t] = "acquire"]

(***************************************************************************)
(* Initial state: a freshly constructed wizard (the caller constructs one  *)
(* wizard per job and calls start_application once); the ledger files hold *)
(* what earlier attempts wrote.                                            *)
(***************************************************************************)
\* The lists save_application_result can have written: no id twice.
NoDup(s) == \A i, j \in 1..Len(s) : i # j => s[i] # s[j]

Ledgers == {s \in UNION {[1..n -> JobIds] : n \in 0..MaxLedger} : NoDup(s)}

NoRec == [job_id |-> None, success |-> FALSE]

\* No CookieManager has been constructed.
SessionIdle == session = [constructed |-> FALSE]

\* No checkbox processor has been called.
NoCheckbox == [before |-> FALSE, after |-> FALSE, label |-> "none", html |-> "none"]

\* No cover letter has been asked for.
NoCover == [job |-> "none", requests |-> <<>>, letter |-> "none"]

\* No field processor has been called.
NoGenerated == [kind |-> "none", text |-> "none"]

FieldIdle ==
    /\ processor = "none"
    /\ options = <<>>
    /\ generated = NoGenerated
    /\ driver = "ok"
    /\ oracle_calls = 0
    /\ chosen = None
    /\ processed = None
    /\ answers_before = <<>>
    /\ console = "unused"
    /\ checkbox = NoCheckbox
    /\ cover = NoCover

WizardConstructed ==
    /\ pc = "idle"
    /\ job_data = [id |-> Absent, job_id |-> Absent, easy_apply_clicked |-> FALSE]
    /\ form = FormOf(FALSE, "none", "none", FALSE, FALSE)
    /\ modal = FALSE
    /\ step_count = 0
    /\ previous_form_content = None
    /\ duplicate_form_count = 0
    /\ stuck_detection_count = 0
    /\ successful_applications = <<>>
    /\ failed_applications = <<>>
    /\ exc = NoExc
    /\ caught = NoExc
    /\ pending = NoReason
    /\ saveIdx = 1
    /\ retval = None
    /\ result = None
    /\ close_success = FALSE
    /\ discard_success = FALSE
    /\ exit_success = FALSE
    /\ eeModalAtEntry = FALSE
    /\ eeUi = {}
    /\ eeEscaped = FALSE
    /\ trace = <<>>

\* load_answers (helpers.py lines 14-23): the dict of the answers file; the
\* empty dict if the file is missing or does not parse.  A file written by
\* an earlier run can hold the 'current_job_data' of that run.
LoadedAnswers ==
    {<<>>,
     <<[key |-> <<"Email">>, value |-> "a@b.c"],
       [key |-> <<"current_job_data">>,
        value |-> [id |-> Absent, job_id |-> "j2", easy_apply_clicked |-> FALSE]]>>}

\* The wizard is constructed over the files of earlier runs: either ledgers
\* (of an attempt on job j1) and no answers, or answers and no ledgers.
\* The manager was constructed, without a save since, either just before, or
\* TickSeconds short of save_interval seconds ago (the worker can wake while
\* _save_application_data saves the cookies), or, over empty files,
\* save_interval seconds ago (the worker can wake at any point of the
\* attempt).
Init ==
    /\ WizardConstructed
    /\ answers \in LoadedAnswers
    /\ ledgerOK \in Ledgers
    /\ ledgerFail \in Ledgers
    /\ Len(ledgerOK) + Len(ledgerFail) <= MaxLedger
    /\ Elems(ledgerOK) \cup Elems(ledgerFail) \subseteq {"j1"}
    /\ answers = <<>> \/ (ledgerOK = <<>> /\ ledgerFail = <<>>)
    /\ rec = NoRec
    /\ field_label = <<>>
    /\ answer = None
    /\ FieldIdle
    /\ session \in {[SessionConstructed EXCEPT !.now = t] :
                        t \in {0, save_interval - TickSeconds, save_interval}}
    /\ session.now < save_interval \/ (answers = <<>> /\ ledgerOK = <<>> /\ ledgerFail = <<>>)

(***************************************************************************)
(* start_application(job_data): entry.                                     *)
(***************************************************************************)
\* The form on the page: f once the modal is open, unknown (left as it is)
\* while no modal has been opened.
FormShown(m, f, old) == IF m THEN f ELSE old

StartApplication ==
    /\ pc = "idle"
    /\ \E j \in Jobs, f \in Forms, m \in BOOLEAN :
          /\ job_data' = j
          /\ modal' = (IF j.easy_apply_clicked THEN m ELSE FALSE)
          /\ form' = FormShown(j.easy_apply_clicked /\ m, f, form)
    /\ pc' = "TriggerEntry"
    /\ UNCHANGED <<otherVars, loopVars, memVars, fileVars, exc, caught, pending, saveIdx, retval,
                   result, eeLocals, exit_success, eeHist, eeEscaped, trace>>

\* Lines 338-347: the loop's counters and the first FormProcessor.
EnterLoop ==
    /\ step_count' = 0
    /\ previous_form_content' = None
    /\ duplicate_form_count' = 0
    /\ stuck_detection_count' = 0
    /\ IF FormProcessorInit(FormProcessorArgsBeforeLoop) = "ok"
       THEN pc' = "LoopHead" /\ UNCHANGED <<exc, result>>
       ELSE Raised([type |-> "TypeError", msg |-> "FormProcessor.__init__"])

\* Variant: the entry control is located and clicked although the caller
\* says it has been clicked.
EntryTrace_ClicksAnyway(already_clicked, o) ==
    IF o \in {"count_raise", "none"} THEN <<"Locate">> ELSE <<"Locate", "EntryClick">>

\* What lines 316-335 do to the entry control: nothing if the caller has
\* clicked it, else it is located ("Locate") and, if its count() returned a
\* number above 0, its first match is clicked ("EntryClick").
EntryTrace(already_clicked, o) ==
    IF already_clicked THEN <<>>
    ELSE IF o \in {"count_raise", "none"} THEN <<"Locate">>
    ELSE <<"Locate", "EntryClick">>

\* Lines 316-335.  o is what the driver does:
\*   "ok"          every call returns
\*   "none"        the entry control is not found (count() = 0)
\*   "count_raise" / "click_raise" / "wait_raise"  that call raises t
TriggerEntry ==
    /\ pc = "TriggerEntry"
    /\ \E o \in {"ok", "none", "count_raise", "click_raise", "wait_raise"},
          t \in DriverErrors, m \in BOOLEAN, f \in Forms :
          IF job_data.easy_apply_clicked
          THEN /\ o \in {"ok", "wait_raise"}
               /\ m = modal
               /\ IF o = "ok"
                  THEN EnterLoop
                  ELSE Raised([type |-> t, msg |-> DriverMsg(t)]) /\ UNCHANGED loopVars
               /\ f = form
               /\ trace' = trace \o EntryTrace(TRUE, o)
               /\ UNCHANGED <<modal, form, failed_applications, retval>>
          ELSE CASE o = "count_raise" ->
                    /\ m = modal /\ f = form
                    /\ Raised([type |-> t, msg |-> DriverMsg(t)])
                    /\ trace' = trace \o EntryTrace(FALSE, o)
                    /\ UNCHANGED <<modal, form, loopVars, failed_applications, retval>>
                 [] o = "none" ->
                    /\ m = modal /\ f = form
                    /\ failed_applications' = Append(failed_applications,
                          [job |-> job_data,
                           reason |-> [text |-> "No Easy Apply button found", step |-> 0,
                                       msg |-> "none", exit |-> "none"]])
                    /\ trace' = trace \o EntryTrace(FALSE, o) \o <<"Record">>
                    /\ retval' = APPLICATION_FAILURE
                    /\ result' = APPLICATION_FAILURE
                    /\ pc' = "done"
                    /\ UNCHANGED <<modal, form, loopVars, exc>>
                 [] o = "click_raise" ->
                    /\ m = modal /\ f = form
                    /\ Raised([type |-> t, msg |-> DriverMsg(t)])
                    /\ trace' = trace \o EntryTrace(FALSE, o)
                    /\ UNCHANGED <<modal, form, loopVars, failed_applications, retval>>
                 [] o = "wait_raise" ->
                    /\ modal' = m
                    /\ form' = FormShown(m, f, form)
                    /\ Raised([type |-> t, msg |-> DriverMsg(t)])
                    /\ trace' = trace \o EntryTrace(FALSE, o)
                    /\ UNCHANGED <<loopVars, failed_applications, retval>>
                 [] o = "ok" ->
                    /\ modal' = m
                    /\ form' = FormShown(m, f, form)
                    /\ EnterLoop
                    /\ trace' = trace \o EntryTrace(FALSE, o)
                    /\ UNCHANGED <<failed_applications, retval>>
    /\ UNCHANGED <<job_data, otherVars, answers, successful_applications, fileVars, caught,
                   pending, saveIdx, eeLocals, exit_success, eeHist, eeEscaped>>

\* Entry of _emergency_exit_application, called with the reason r pending.
CallEmergencyExit(r, tr) ==
    /\ pending' = r
    /\ pc' = "EE_Screenshot"
    /\ close_success' = FALSE
    /\ discard_success' = FALSE
    /\ eeModalAtEntry' = modal
    /\ eeUi' = {}
    /\ trace' = Append(tr, "EE")

\* Line 349 and lines 695-699: the loop condition; the premium-redirect check
\* of line 353 never raises and changes no variable of the wizard.
LoopHead ==
    /\ pc = "LoopHead"
    /\ IF step_count < max_steps
       THEN /\ pc' = "DetectModal"
            /\ trace' = Append(trace, "Iteration")
            /\ UNCHANGED <<pending, eeLocals, eeHist>>
       ELSE CallEmergencyExit(Reason("Reached max step count", max_steps, "none"), trace)
    /\ UNCHANGED <<callVars, modal, loopVars, memVars, fileVars, exc, caught,
                   saveIdx, retval, result, exit_success, eeEscaped>>

\* Lines 353-372: the wait that follows a handled premium redirect and the
\* modal's count() raise alike; without the modal the attempt is given up.
DetectModal ==
    /\ pc = "DetectModal"
    /\ \E o \in {"count", "count_raise"}, t \in DriverErrors :
          CASE o = "count_raise" ->
               /\ Raised([type |-> t, msg |-> DriverMsg(t)])
               /\ UNCHANGED <<pending, eeLocals, eeHist, trace>>
            [] o = "count" ->
               /\ IF ~modal
                  THEN CallEmergencyExit(
                          Reason("Application modal disappeared at step", step_count + 1, "none"),
                          trace)
                  ELSE /\ pc' = "CheckDuplicate"
                       /\ UNCHANGED <<pending, eeLocals, eeHist, trace>>
               /\ UNCHANGED <<exc, result>>
    /\ UNCHANGED <<callVars, modal, loopVars, memVars, fileVars, caught,
                   saveIdx, retval, exit_success, eeEscaped>>

\* Lines 411-414: the content c differs from the one remembered.
ResetDuplicate(c) ==
    /\ duplicate_form_count' = 0
    /\ previous_form_content' = c

\* Lines 376-414.  c is the modal's inner HTML; alt tells whether the button
\* scan finds a navigation button at an index > 0.
CheckDuplicate ==
    /\ pc = "CheckDuplicate"
    /\ \E o \in {"html", "html_raise", "scan_raise"}, t \in DriverErrors,
          c \in Contents, alt \in BOOLEAN :
          /\ (form.static => ~alt)
          /\ CASE o = "html_raise" ->
                  /\ ~alt /\ c = "html1"
                  /\ Raised([type |-> t, msg |-> DriverMsg(t)])
                  /\ UNCHANGED <<loopVars, pending, eeLocals, eeHist, trace>>
               [] o = "scan_raise" ->
                  /\ ~alt
                  /\ c = previous_form_content
                  /\ duplicate_form_count + 1 >= max_duplicates
                  /\ duplicate_form_count' = duplicate_form_count + 1
                  /\ Raised([type |-> t, msg |-> DriverMsg(t)])
                  /\ UNCHANGED <<step_count, previous_form_content, stuck_detection_count,
                                 pending, eeLocals, eeHist, trace>>
               [] o = "html" ->
                  /\ IF c = previous_form_content
                     THEN /\ duplicate_form_count' = duplicate_form_count + 1
                          /\ UNCHANGED previous_form_content
                          /\ IF duplicate_form_count' >= max_duplicates /\ ~alt
                             THEN CallEmergencyExit(
                                     Reason("Infinite loop detected in application form at step",
                                            step_count + 1, "none"), trace)
                             ELSE /\ pc' = "ProcessFields"
                                  /\ UNCHANGED <<pending, eeLocals, eeHist, trace>>
                     ELSE /\ ~alt
                          /\ ResetDuplicate(c)
                          /\ pc' = "ProcessFields"
                          /\ UNCHANGED <<pending, eeLocals, eeHist, trace>>
                  /\ UNCHANGED <<step_count, stuck_detection_count, exc, result>>
    /\ UNCHANGED <<callVars, modal, memVars, fileVars, caught,
                   saveIdx, retval, exit_success, eeEscaped>>

\* Lines 416-420: the job is stored under 'current_job_data' and a
\* FormProcessor is constructed with three arguments.
ProcessFields ==
    /\ pc = "ProcessFields"
    /\ answers' = Put(answers, <<"current_job_data">>, job_data)
    /\ trace' = Append(trace, "Form")
    /\ IF FormProcessorInit(FormProcessorArgsInLoop) = "ok"
       THEN pc' = "RunForm" /\ UNCHANGED <<exc, result>>
       ELSE Raised([type |-> "TypeError", msg |-> "FormProcessor.__init__"])
    /\ UNCHANGED <<callVars, modal, loopVars, successful_applications, failed_applications,
                   fileVars, caught, pending, saveIdx, retval, eeLocals, exit_success,
                   eeHist, eeEscaped>>

\* Lines 709-747: the except clauses; each one calls Emergency Exit first.
Handler ==
    /\ pc = "Handler"
    /\ caught' = exc
    /\ CallEmergencyExit(Reason(HandlerPrefix(exc.type), 0, exc.msg),
                         Append(trace, "Handler"))
    /\ UNCHANGED <<callVars, modal, loopVars, memVars, fileVars, exc, saveIdx, retval,
                   result, exit_success, eeEscaped>>

(***************************************************************************)
(* _emergency_exit_application (lines 83-301).  Every strategy runs in its *)
(* own try/except Exception; the whole body runs in an outer one.          *)
(***************************************************************************)
\* The per-strategy clauses "except Exception" (lines 103-297).
EEInnerCatches(t) == IsInstance(t, "Exception")

\* Variant: the outer clause names only the driver's timeout.
EEOuterCatches_TimeoutOnly(t) == IsInstance(t, "TimeoutError")

\* The outer clause "except Exception" (line 299).
EEOuterCatches(t) == IsInstance(t, "Exception")

EEGoto(p) == pc' = p /\ UNCHANGED <<exc, result, exit_success, eeEscaped>>

\* return b: every call site records the failure next.
EERet(b) == pc' = "Record" /\ exit_success' = b /\ UNCHANGED <<exc, result, eeEscaped>>

\* An exception of class t raised outside the per-strategy try blocks.
EEOuterRaise(t) ==
    IF EEOuterCatches(t)
    THEN EERet(FALSE)
    ELSE /\ eeEscaped' = TRUE
         /\ UNCHANGED exit_success
         /\ Raised([type |-> t, msg |-> DriverMsg(t)])

\* An exception of class t raised inside a strategy that falls through to p.
EEInnerRaise(t, p) ==
    IF EEInnerCatches(t) THEN EEGoto(p) ELSE EEOuterRaise(t)

\* locator(sel).count() > 0, first.click(force), wait_for_timeout:
\*   "count_raise" | "none" | "click_raise" | "wait_raise" | "ok";
\* m is the modal's presence after a click that went through.
SelectorOutcomes == {"count_raise", "none", "click_raise", "wait_raise", "ok"}

SelectorClick(o, t, m, p) ==
    /\ eeUi' = eeUi \cup (IF o \in {"click_raise", "wait_raise", "ok"} THEN {"click"} ELSE {})
                  \cup (IF o \in {"count_raise", "click_raise", "wait_raise"}
                        THEN {"raised"} ELSE {})
    /\ modal' = IF o \in {"wait_raise", "ok"} THEN m ELSE modal
    /\ IF o \in {"count_raise", "click_raise", "wait_raise"}
       THEN EEInnerRaise(t, p)
       ELSE EEGoto(p)

\* page.evaluate(script) that queries the DOM and clicks, then a wait:
\*   "eval_raise" | "no_button" | "wait_raise" | "ok".
ScriptOutcomes == {"eval_raise", "no_button", "wait_raise", "ok"}

ScriptedClick(o, t, m, p) ==
    /\ eeUi' = eeUi \cup {"evaluate"}
                  \cup (IF o \in {"eval_raise", "wait_raise"} THEN {"raised"} ELSE {})
    /\ modal' = IF o \in {"wait_raise", "ok"} THEN m ELSE modal
    /\ IF o \in {"eval_raise", "wait_raise"}
       THEN EEInnerRaise(t, p)
       ELSE EEGoto(p)

eeFrame == <<callVars, loopVars, memVars, fileVars, caught, pending, saveIdx, retval,
             eeModalAtEntry, trace>>

\* Lines 96-104: the debug screenshot, best effort.
EE_Screenshot ==
    /\ pc = "EE_Screenshot"
    /\ \E o \in {"ok", "raise"}, t \in DriverErrors \cup {"OSError"} :
          /\ IF o = "raise" THEN EEInnerRaise(t, "EE_Close1") ELSE EEGoto("EE_Close1")
          /\ eeUi' = eeUi \cup (IF o = "raise" THEN {"raised"} ELSE {})
    /\ UNCHANGED <<eeFrame, modal, eeLocals>>

\* Lines 109-120: close strategy 1, the composite selector.
EE_Close1 ==
    /\ pc = "EE_Close1"
    /\ \E o \in SelectorOutcomes, t \in DriverErrors, m \in {modal, FALSE} :
          /\ SelectorClick(o, t, m, "EE_Close2")
          /\ close_success' = (o = "ok")
    /\ UNCHANGED <<eeFrame, discard_success>>

\* Lines 122-141: close strategy 2, the icon's parent button.
EE_Close2 ==
    /\ pc = "EE_Close2"
    /\ IF ~close_success
       THEN \E o \in SelectorOutcomes, t \in DriverErrors, m \in {modal, FALSE} :
               /\ SelectorClick(o, t, m, "EE_Close3")
               /\ close_success' = (o = "ok")
       ELSE EEGoto("EE_Close3") /\ UNCHANGED <<modal, eeUi, close_success>>
    /\ UNCHANGED <<eeFrame, discard_success>>

\* Lines 143-191: close strategy 3, the scripted DOM query.
EE_Close3 ==
    /\ pc = "EE_Close3"
    /\ IF ~close_success
       THEN \E o \in ScriptOutcomes, t \in DriverErrors, m \in {modal, FALSE} :
               /\ ScriptedClick(o, t, m, "EE_CloseCheck")
               /\ close_success' = (o = "ok")
       ELSE EEGoto("EE_CloseCheck") /\ UNCHANGED <<modal, eeUi, close_success>>
    /\ UNCHANGED <<eeFrame, discard_success>>

\* Lines 193-201: give up without a close click, else enter the discard step
\* ("discard_step"), which begins with a wait for the dialog.
EE_CloseCheck ==
    /\ pc = "EE_CloseCheck"
    /\ IF ~close_success
       THEN EERet(FALSE) /\ UNCHANGED eeUi
       ELSE \E o \in {"ok", "wait_raise"}, t \in DriverErrors :
               /\ IF o = "wait_raise" THEN EEOuterRaise(t) ELSE EEGoto("EE_Discard1")
               /\ eeUi' = eeUi \cup {"discard_step"}
                             \cup (IF o = "wait_raise" THEN {"raised"} ELSE {})
    /\ UNCHANGED <<eeFrame, modal, eeLocals>>

\* Lines 203-220: discard strategy 1, the composite selector.
EE_Discard1 ==
    /\ pc = "EE_Discard1"
    /\ \E o \in SelectorOutcomes, t \in DriverErrors, m \in {modal, FALSE} :
          /\ SelectorClick(o, t, m, "EE_Discard2")
          /\ discard_success' = (o = "ok")
    /\ UNCHANGED <<eeFrame, close_success>>

\* Lines 222-282: discard strategy 2, the scripted DOM query.
EE_Discard2 ==
    /\ pc = "EE_Discard2"
    /\ IF ~discard_success
       THEN \E o \in ScriptOutcomes, t \in DriverErrors, m \in {modal, FALSE} :
               /\ ScriptedClick(o, t, m, "EE_Verify")
               /\ discard_success' = (o = "ok")
       ELSE EEGoto("EE_Verify") /\ UNCHANGED <<modal, eeUi, discard_success>>
    /\ UNCHANGED <<eeFrame, close_success>>

\* Lines 284-297: the verification ("verify"): the form container must be
\* gone.
EE_Verify ==
    /\ pc = "EE_Verify"
    /\ \E o \in {"count", "raise"}, t \in DriverErrors :
          /\ IF o = "raise"
             THEN IF EEInnerCatches(t) THEN EERet(FALSE) ELSE EEOuterRaise(t)
             ELSE EERet(~modal)
          /\ eeUi' = eeUi \cup {"verify"}
                        \cup (IF o = "raise" THEN {"raised", "verify_raised"} ELSE {})
    /\ UNCHANGED <<eeFrame, modal, eeLocals>>

(***************************************************************************)
(* Recording the outcome.                                                  *)
(***************************************************************************)
\* failed_applications.append({...}) after an Emergency Exit, followed by the
\* call of _save_application_data.  The frame of the exit that has returned
\* is gone: its locals and the history kept about it are cleared.
Record ==
    /\ pc = "Record"
    /\ failed_applications' = Append(failed_applications,
          [job |-> job_data,
           reason |-> [text |-> pending.text, step |-> pending.step,
                       msg |-> pending.msg, exit |-> exit_success]])
    /\ retval' = APPLICATION_FAILURE
    /\ saveIdx' = 1
    /\ pc' = "Save"
    /\ trace' = Append(trace, "Record")
    /\ close_success' = FALSE
    /\ discard_success' = FALSE
    /\ eeModalAtEntry' = FALSE
    /\ eeUi' = {}
    /\ UNCHANGED <<callVars, modal, loopVars, answers, successful_applications, fileVars,
                   exc, caught, pending, result, exit_success, eeEscaped>>

(***************************************************************************)
(* The steps of save_cookies (browser/context.py).  Two threads take them: *)
(* "main", which calls save_cookies_now at the end of                      *)
(* _save_application_data, and the periodic worker; the steps of the two   *)
(* interleave in every order.                                              *)
(***************************************************************************)
SessionStep(s) ==
    /\ session' = s
    /\ UNCHANGED <<wizVars, rec, field_label, answer, fieldVars>>

\* Variant: the with statement of line 63 does not wait for the lock.
CanAcquire_Unguarded(s) == TRUE

\* Line 63: threading.Lock is acquired only while no thread holds it.
CanAcquire(s) == s.save_lock = "free"

\* The main flow calls save_cookies: save_cookies_now(force) (lines 133-148),
\* the save after login (line 287), the exit hook (line 115).
MainSave ==
    /\ session.pc["main"] = "idle"
    /\ \E force \in BOOLEAN : SessionStep(SaveBegin(session, "main", force))

\* Thread.is_alive() of the worker (lines 81, 91).
WorkerAlive(s) == s.pc["periodic"] # "stopped"

\* start_periodic_save (lines 79-87): nothing while the worker is alive;
\* else the event is cleared and a new worker starts to wait.
StartPeriodic ==
    /\ session.pc["main"] = "idle"
    /\ SessionStep(IF WorkerAlive(session) THEN session
                   ELSE [session EXCEPT !.stop = FALSE, !.pc["periodic"] = "waiting",
                                        !.wait_from = session.now])

\* stop_periodic_save (lines 89-94): while the worker is alive the event is
\* set; the join gives up after five seconds, so the worker may still be
\* inside save_cookies.  Nothing happens once the worker has ended.
StopPeriodic ==
    /\ session.pc["main"] = "idle"
    /\ SessionStep(IF WorkerAlive(session) THEN [session EXCEPT !.stop = TRUE]
                   ELSE session)

\* _periodic_save_worker (lines 96-108): the wait of line 98 ends when the
\* event is set (the loop ends) or after save_interval seconds; the worker
\* then stops if the browser is gone and calls save_cookies() otherwise;
\* when is_connected() raises, the error is logged and the wait starts again.
PeriodicWake ==
    /\ session.pc["periodic"] = "waiting"
    /\ \/ /\ session.stop
          /\ SessionStep([session EXCEPT !.pc["periodic"] = "stopped"])
       \/ /\ ~session.stop
          /\ session.now - session.wait_from >= save_interval
          /\ \E connected \in {"yes", "no", "raises"} :
                SessionStep(CASE connected = "yes" -> SaveBegin(session, "periodic", FALSE)
                              [] connected = "no" -> [session EXCEPT !.pc["periodic"] = "stopped"]
                              [] OTHER -> [session EXCEPT !.wait_from = session.now])

\* Line 63: the thread enters the with block.
Acquire ==
    \E t \in Threads :
        /\ session.pc[t] = "acquire"
        /\ CanAcquire(session)
        /\ SessionStep([session EXCEPT !.save_lock = t, !.pc[t] = "locked"])

\* Lines 66-69: mkdir, then storage_state starts writing the file; either
\* may raise before anything is written (lines 75-77).
WriteBegin ==
    \E t \in Threads, ok \in BOOLEAN :
        /\ session.pc[t] = "locked"
        /\ SessionStep(IF ok THEN [session EXCEPT !.pc[t] = "writing"]
                       ELSE [session EXCEPT !.pc[t] = "release", !.ret[t] = "False"])

\* Lines 69-77: storage_state returns and the time of the save is kept, or
\* it raises and the call returns False.
WriteEnd ==
    \E t \in Threads, ok \in BOOLEAN :
        /\ session.pc[t] = "writing"
        /\ SessionStep(IF ok
                       THEN [session EXCEPT !.pc[t] = "release", !.ret[t] = "True",
                                            !.last_save_time = session.current_time[t]]
                       ELSE [session EXCEPT !.pc[t] = "release", !.ret[t] = "False"])

\* The with block is left: the lock is released and the call returns.
Release ==
    \E t \in Threads :
        /\ session.pc[t] = "release"
        /\ SessionStep([session EXCEPT !.save_lock = "free", !.pc[t] = Rest(t),
                           !.wait_from = IF t = "periodic" THEN session.now
                                         ELSE session.wait_from])

\* Time passes.
Tick ==
    /\ session.now + TickSeconds <= MaxClock
    /\ SessionStep([session EXCEPT !.now = session.now + TickSeconds])

\* _save_application_data (lines 57-81), one list entry per step: first the
\* successful entries (the ledger, then save_job_description, whose file is
\* not part of the state), then the failed ones, then, after some time has
\* passed, the call of save_cookies_now(): False without a manager or when
\* the save is refused, and then the return statement follows; else the main
\* flow goes on to the with statement of save_cookies.  Nothing catches the
\* OSError of a ledger or description file that cannot be written.
Save ==
    /\ pc = "Save"
    /\ LET n1 == Len(successful_applications)
           n2 == Len(failed_applications)
       IN  IF saveIdx <= n1
           THEN \E fault \in LedgerFaults, description \in {"ok", "raise"} :
                   LET job_id == JobIdOf(successful_applications[saveIdx].job)
                   IN  /\ ledgerOK' = FileAfter(ledgerOK, job_id, fault)
                       /\ UNCHANGED <<ledgerFail, session>>
                       /\ IF SaveRaises(ledgerOK, job_id, fault)
                          THEN /\ Raised([type |-> "OSError", msg |-> "ledger"])
                               /\ UNCHANGED saveIdx
                          ELSE IF description = "raise"
                          THEN /\ Raised([type |-> "OSError", msg |-> "job description"])
                               /\ UNCHANGED saveIdx
                          ELSE /\ saveIdx' = saveIdx + 1
                               /\ UNCHANGED <<pc, exc, result>>
           ELSE IF saveIdx <= n1 + n2
           THEN \E fault \in LedgerFaults :
                   LET job_id == JobIdOf(failed_applications[saveIdx - n1].job)
                   IN  /\ ledgerFail' = FileAfter(ledgerFail, job_id, fault)
                       /\ UNCHANGED <<ledgerOK, session>>
                       /\ IF SaveRaises(ledgerFail, job_id, fault)
                          THEN /\ Raised([type |-> "OSError", msg |-> "ledger"])
                               /\ UNCHANGED saveIdx
                          ELSE /\ saveIdx' = saveIdx + 1
                               /\ UNCHANGED <<pc, exc, result>>
           ELSE /\ UNCHANGED <<exc, saveIdx, fileVars>>
                /\ IF ~session.constructed
                   THEN /\ result' = retval
                        /\ pc' = "done"
                        /\ UNCHANGED session
                   ELSE \E elapsed \in {0, TickSeconds} :
                           /\ session.now + elapsed <= MaxClock
                           /\ session' = SaveBegin([session EXCEPT !.now = @ + elapsed],
                                                   "main", FALSE)
                           /\ IF session'.pc["main"] = "acquire"
                              THEN /\ pc' = "SaveCookies"
                                   /\ UNCHANGED result
                              ELSE /\ result' = retval
                                   /\ pc' = "done"
    /\ UNCHANGED <<job_data, form, rec, field_label, answer, fieldVars, modal, loopVars,
                   memVars, caught, pending, retval, eeLocals, exit_success, eeHist,
                   eeEscaped, trace>>

\* Lines 78-81: save_cookies_now() has returned; _save_application_data
\* returns and the return statement that follows the call is executed.
SaveReturn ==
    /\ pc = "SaveCookies"
    /\ session.pc["main"] = "idle"
    /\ result' = retval
    /\ pc' = "done"
    /\ UNCHANGED <<job_data, form, otherVars, modal, loopVars, memVars, fileVars, exc,
                   caught, pending, saveIdx, retval, eeLocals, exit_success, eeHist,
                   eeEscaped, trace>>

Next ==
    \/ StartApplication
    \/ TriggerEntry
    \/ LoopHead
    \/ DetectModal
    \/ CheckDuplicate
    \/ ProcessFields
    \/ Handler
    \/ EE_Screenshot
    \/ EE_Close1
    \/ EE_Close2
    \/ EE_Close3
    \/ EE_CloseCheck
    \/ EE_Discard1
    \/ EE_Discard2
    \/ EE_Verify
    \/ Record
    \/ Save
    \/ SaveReturn
    \/ PeriodicWake
    \/ Acquire
    \/ WriteBegin
    \/ WriteEnd
    \/ Release

Spec == Init /\ [][Next]_vars

TypeOK ==
    /\ pc \in {"idle", "TriggerEntry", "LoopHead", "DetectModal", "CheckDuplicate",
               "ProcessFields", "RunForm", "Handler", "EE_Screenshot", "EE_Close1",
               "EE_Close2", "EE_Close3", "EE_CloseCheck", "EE_Discard1", "EE_Discard2",
               "EE_Verify", "Record", "Save", "SaveCookies", "done"}
    /\ step_count \in 0..max_steps
    /\ result \in {None, APPLICATION_SUCCESS, APPLICATION_FAILURE, APPLICATION_INCOMPLETE,
                   "raised"}

(***************************************************************************)
(* Properties of start_application and Emergency Exit.                     *)
(***************************************************************************)
Count(s, x) == Cardinality({i \in 1..Len(s) : s[i] = x})

\* Iterations of the step loop begun, Emergency Exits invoked, in this call.
Iterations == Count(trace, "Iteration")
EECalls == Count(trace, "EE")

Outcomes == {APPLICATION_SUCCESS, APPLICATION_FAILURE, APPLICATION_INCOMPLETE}

\* The attempt found the form container and went on to process its fields.
SawForm == Count(trace, "Form") > 0

LastFailure == failed_applications[Len(failed_applications)]

\* C1 (as claimed): start_application never propagates an exception: every
\* finished call has returned success, failure or incomplete.
C1_AlwaysReturnsOutcome == pc = "done" => result \in Outcomes

\* C2 (as claimed): the step loop runs at most max_steps iterations, and every
\* iteration either ends the attempt with an outcome or adds one to
\* step_count: of a call that has ended, the last iteration begun has ended it
\* with an outcome, and every iteration before it was paid for by an
\* increment.
C2_IterationEndsOrAdvances ==
    /\ Iterations <= max_steps
    /\ Iterations <= step_count + 1
    /\ (pc = "done" /\ Iterations = step_count + 1) => result \in Outcomes

\* C3 (as claimed): an attempt whose form shows a Submit control (whose click
\* succeeds and is followed by a Done control inside the modal) returns
\* success and the job id is in the successful ledger.
C3_SubmitDoneIsSuccess ==
    (pc = "done" /\ SawForm /\ form.submit /\ form.submit_click = "ok" /\ form.done = "modal")
        => (result = APPLICATION_SUCCESS /\ JobIdOf(job_data) \in Elems(ledgerOK))

\* C4 (as claimed): with the modal present, a form whose content never
\* changes and no alternate button, the attempt fails with "Infinite loop
\* detected" and Emergency Exit was invoked exactly once.
C4_StaticFormIsLoopFailure ==
    (pc = "done" /\ SawForm /\ form.static /\ form.next)
        => /\ result = APPLICATION_FAILURE
           /\ LastFailure.reason.text = "Infinite loop detected in application form at step"
           /\ EECalls = 1

\* C5 (as claimed): with neither a Submit nor a continue control on step 1
\* the wizard invokes Emergency Exit and fails with "No working Next button
\* found on step 1".
C5_NoControlIsNoNextFailure ==
    (pc = "done" /\ SawForm /\ ~form.submit /\ ~form.next /\ step_count = 0)
        => /\ result = APPLICATION_FAILURE
           /\ LastFailure.reason.text = "No working Next button found on step"
           /\ LastFailure.reason.step = 1
           /\ EECalls >= 1

\* C7 (as claimed): Emergency Exit entered with the form container already
\* absent returns true and attempts no click and no scripted DOM query.
C7_ExitIdempotentWhenAbsent ==
    (pc = "Record" /\ ~eeModalAtEntry)
        => (exit_success = TRUE /\ eeUi \cap {"click", "evaluate"} = {})

\* C8: Emergency Exit never throws: whatever its close, discard and
\* verification steps raise, no exception leaves it and it hands a boolean to
\* the wizard.
C8_EmergencyExitNeverThrows ==
    /\ ~eeEscaped
    /\ pc = "Record" => exit_success \in BOOLEAN

\* Emergency Exit has returned although one of its driver calls raised.
C8_Witness == pc = "Record" /\ "raised" \in eeUi /\ close_success /\ ~exit_success

\* C9 (as claimed): when a UI-driver exception reaches the top level, the
\* wizard invokes Emergency Exit, then records a failure whose reason holds
\* the exception's message, and returns failure.
C9_DriverErrorIsFailure ==
    (pc = "done" /\ caught.type \in DriverErrors)
        => /\ result = APPLICATION_FAILURE
           /\ Len(trace) >= 3
           /\ SubSeq(trace, Len(trace) - 2, Len(trace)) = <<"Handler", "EE", "Record">>
           /\ LastFailure.reason.msg = caught.msg
           /\ LastFailure.reason.text = HandlerPrefix(caught.type)

(***************************************************************************)
(* The ledgers under any sequence of recordings: save_application_result   *)
(* applied again and again to one data directory, starting without ledger  *)
(* files.                                                                  *)
(***************************************************************************)
InitLedger ==
    /\ WizardConstructed
    /\ answers = <<>>
    /\ ledgerOK = <<>>
    /\ ledgerFail = <<>>
    /\ rec = NoRec
    /\ field_label = <<>>
    /\ answer = None
    /\ FieldIdle
    /\ SessionIdle

\* save_application_result(data_dir, job_id, success): the file is chosen by
\* success (lines 37-39).
RecordOutcome ==
    /\ \E id \in JobIds, success \in BOOLEAN, fault \in LedgerFaults :
          /\ rec' = [job_id |-> id, success |-> success]
          /\ IF success
             THEN /\ ledgerOK' = FileAfter(ledgerOK, id, fault)
                  /\ UNCHANGED ledgerFail
             ELSE /\ ledgerFail' = FileAfter(ledgerFail, id, fault)
                  /\ UNCHANGED ledgerOK
    /\ UNCHANGED <<pc, job_data, form, modal, loopVars, memVars, exc, caught, pending,
                   saveIdx, retval, result, eeLocals, exit_success, eeHist, eeEscaped,
                   trace, field_label, answer, fieldVars, session>>

NextLedger == RecordOutcome

SpecLedger == InitLedger /\ [][NextLedger]_vars

\* C6 (as claimed): a job id appears at most once in each ledger; recording
\* an id the ledger already holds leaves it unchanged; an id once written to
\* a ledger is never removed from it.
C6_LedgersDeduplicatedAppendOnly ==
    /\ [](NoDup(ledgerOK) /\ NoDup(ledgerFail))
    /\ [][/\ Elems(ledgerOK) \subseteq Elems(ledgerOK')
          /\ Elems(ledgerFail) \subseteq Elems(ledgerFail')
          /\ (rec'.success /\ rec'.job_id \in Elems(ledgerOK)) => ledgerOK' = ledgerOK
          /\ (~rec'.success /\ rec'.job_id \in Elems(ledgerFail)) => ledgerFail' = ledgerFail
         ]_vars

(***************************************************************************)
(* The Answer Store lookup, helpers.get_answer_for_field.                  *)
(*                                                                         *)
(* A string is a sequence of text chunks; a chunk is a run of characters   *)
(* kept whole.  str.lower() lowers every chunk; the substring tests of the *)
(* code are tests for consecutive chunks (no needle of the code straddles  *)
(* two chunks of this alphabet in any other way).                          *)
(***************************************************************************)
Alphabet == {"how many ", "years of ", "Years Of ", "work ", "experience", "name", "Name"}

\* str.lower() on one chunk.
LowerChunk(c) ==
    CASE c = "Years Of " -> "years of "
      [] c = "Name"      -> "name"
      [] c = "Cover "    -> "cover "
      [] OTHER           -> c

\* str.lower()
Lower(str) == [i \in 1..Len(str) |-> LowerChunk(str[i])]

\* needle in str
Contains(str, needle) ==
    \E i \in 0..(Len(str) - Len(needle)) :
        \A k \in 1..Len(needle) : str[i + k] = needle[k]

\* str.startswith(prefix)
StartsWith(str, prefix) ==
    /\ Len(prefix) <= Len(str)
    /\ \A k \in 1..Len(prefix) : str[k] = prefix[k]

Labels == UNION {[1..n -> Alphabet] : n \in 0..MaxLabelLen}

\* Lines 215-218: the label is a years-of-experience question.
IsYearsOfExperience(field_label_) ==
    LET field_lower == Lower(field_label_)
    IN  /\ \/ Contains(field_lower, <<"years of ", "experience">>)
           \/ Contains(field_lower, <<"years of ", "work ", "experience">>)
        /\ \/ Contains(field_lower, <<"how many ">>)
           \/ StartsWith(field_lower, <<"years of ">>)

\* Variant: the case-insensitive loop of lines 229-231 accepts a key that
\* merely occurs in the label (partial matching).
get_answer_for_field_Partial(answers_, field_label_) ==
    IF IsYearsOfExperience(field_label_)
    THEN [answers |-> Put(answers_, field_label_, "2"), ret |-> "2"]
    ELSE IF HasKey(answers_, field_label_)
    THEN [answers |-> answers_, ret |-> Lookup(answers_, field_label_)]
    ELSE LET hits == {i \in 1..Len(answers_) :
                        Contains(Lower(field_label_), Lower(answers_[i].key))}
         IN  IF hits # {}
             THEN [answers |-> answers_,
                   ret |-> answers_[CHOOSE i \in hits : \A j \in hits : i <= j].value]
             ELSE [answers |-> answers_, ret |-> None]

\* get_answer_for_field(answers, field_label): the dict after the call and
\* the value returned.
get_answer_for_field(answers_, field_label_) ==
    IF IsYearsOfExperience(field_label_)
    THEN [answers |-> Put(answers_, field_label_, "2"), ret |-> "2"]
    ELSE IF HasKey(answers_, field_label_)
    THEN [answers |-> answers_, ret |-> Lookup(answers_, field_label_)]
    ELSE LET hits == {i \in 1..Len(answers_) :
                        Lower(answers_[i].key) = Lower(field_label_)}
         IN  IF hits # {}
             THEN [answers |-> answers_,
                   ret |-> answers_[CHOOSE i \in hits : \A j \in hits : i <= j].value]
             ELSE [answers |-> answers_, ret |-> None]

\* The stores looked up: up to MaxStore entries under pairwise different keys.
StoreKeys == {<<"name">>, <<"Name">>, <<"Years Of ", "experience">>,
              <<"years of ", "experience">>, <<"name", "name">>}
Values == {"2", "yes"}
Stores ==
    {d \in UNION {[1..n -> [key : StoreKeys, value : Values]] : n \in 0..MaxStore} :
        \A i, j \in 1..Len(d) : i # j => d[i].key # d[j].key}

Unasked == "unasked"

InitAnswers ==
    /\ WizardConstructed
    /\ ledgerOK = <<>>
    /\ ledgerFail = <<>>
    /\ rec = NoRec
    /\ answers \in Stores
    /\ field_label \in Labels
    /\ answer = Unasked
    /\ FieldIdle
    /\ SessionIdle

\* One call get_answer_for_field(self.answers, field_label).
GetAnswer ==
    /\ answer = Unasked
    /\ LET r == get_answer_for_field(answers, field_label)
       IN  /\ answers' = r.answers
           /\ answer' = r.ret
    /\ UNCHANGED <<pc, job_data, form, modal, loopVars, successful_applications,
                   failed_applications, fileVars, exc, caught, pending, saveIdx, retval,
                   result, eeLocals, exit_success, eeHist, eeEscaped, trace, rec,
                   field_label, fieldVars, session>>

NextAnswers == GetAnswer

SpecAnswers == InitAnswers /\ [][NextAnswers]_vars

\* The stored entries whose key equals the label ignoring case.
SameIgnoringCase(d, l) == {i \in 1..Len(d) : Lower(d[i].key) = Lower(l)}

\* C10 (as claimed): the lookup returns a value only when a stored key equals
\* the label ignoring case, and then that key's value; otherwise none.
C10_ExactIgnoringCaseOnly ==
    [][LET m == SameIgnoringCase(answers, field_label)
       IN  IF m = {} THEN answer' = None
                     ELSE \E i \in m : answer' = answers[i].value]_vars

\* C10 (amended): for a label that is not a years-of-experience question the
\* lookup returns the value of a stored key that equals the label ignoring
\* case (the identical key's, if stored), none if there is no such key, and
\* leaves the store alone; for a years-of-experience question it returns "2"
\* whatever is stored, and stores "2" under the label.
C10_ExactIgnoringCaseOrYears ==
    [][LET m == SameIgnoringCase(answers, field_label)
       IN  IF IsYearsOfExperience(field_label)
           THEN /\ answer' = "2"
                /\ HasKey(answers', field_label)
                /\ Lookup(answers', field_label) = "2"
           ELSE /\ answers' = answers
                /\ m = {} => answer' = None
                /\ m # {} => \E i \in m : answer' = answers[i].value
                /\ \A i \in m : answers[i].key = field_label => answer' = answers[i].value
      ]_vars

\* A key stored in another case, found after a key that only occurs in the
\* label, answered the lookup.
C10_Witness ==
    /\ field_label = <<"Name", "name">>
    /\ answers = <<[key |-> <<"name">>, value |-> "2"],
                   [key |-> <<"name", "name">>, value |-> "yes"]>>
    /\ answer = "yes"

(***************************************************************************)
(* The field processors (src/apply/field_processors) and the Oracle        *)
(* (cover_letter_generator.answer_generator), called through               *)
(* FieldProcessor.ask_for_input.                                           *)
(*                                                                         *)
(* A label is a sequence of text chunks, as for the Answer Store lookup.   *)
(* Option texts, stored values and Oracle responses are whole strings.     *)
(***************************************************************************)
\* Largest number of options of a choice field, largest store of a call.
MaxOptions == 2
MaxFieldStore == 1

FieldLabels == {<<"visa ", "sponsorship">>, <<"name">>, <<"Name">>,
                <<"work ", "experience">>, <<"years of ", "experience">>, <<"salary">>}

\* The keywords of the code that occur in a (lower-cased) chunk.
Words(c) ==
    CASE c = "visa "       -> {"visa"}
      [] c = "sponsorship" -> {"sponsor", "sponsorship"}
      [] c = "work "       -> {"work"}
      [] c = "experience"  -> {"experience"}
      [] c = "salary"      -> {"salary"}
      [] OTHER             -> {}

\* any(keyword in field_label.lower() for keyword in kws)
Mentions(field_label_, kws) ==
    \E i \in 1..Len(field_label_) : Words(Lower(field_label_)[i]) \cap kws # {}

OptionTexts == {"Yes", "No", "Not sure"}

\* str.lower() on an option text, a stored value or a response.
LowerText(t) ==
    CASE t = "Yes"   -> "yes"
      [] t = "No"    -> "no"
      [] t = "Not sure" -> "not sure"
      [] OTHER       -> t

\* a in b, for lower-cased texts: of the texts of this model only "no" is a
\* proper part of another one, "not sure".
InText(a, b) == a = b \/ (a = "no" /\ b = "not sure")

\* str.isdigit() and int(str) for the numerals the Oracle answers with.
Numerals == <<"1", "2", "3">>
IsDigit(t) == \E k \in 1..Len(Numerals) : Numerals[k] = t
\* Variant: the numerals "1" and "2" name each other's option.
IntOf_Swapped(t) == IF t = "1" THEN 2 ELSE IF t = "2" THEN 1 ELSE 3

IntOf(t) == CHOOSE k \in 1..Len(Numerals) : Numerals[k] = t

\* The first option (1-based index) whose lower-cased text contains w, 0 if
\* there is none.
FirstWith(options_, w) ==
    LET hits == {i \in 1..Len(options_) : InText(w, LowerText(options_[i]))}
    IN  IF hits = {} THEN 0 ELSE CHOOSE i \in hits : \A j \in hits : i <= j

\* What answer_generator does in one call:
\*   "answer"      it returns the text (a numeral for a choice field);
\*   "unresolved"  it returns the pair (False, ""): no answer could be got;
\*   "raise"       it raises (no API key, ...).
Answered(t) == [kind |-> "answer", text |-> t]
Unresolved == [kind |-> "unresolved", text |-> ""]
GeneratorRaises == [kind |-> "raise", text |-> ""]

GenericText == "Yes, I am interested in this position and meet the requirements."

\* FieldProcessor.ask_for_input (base.py lines 141-240): the store after the
\* call and the answer returned.
ask_for_input(answers_, field_label_, field_type, options_, gen) ==
    LET keep(v) == [answers |-> answers_, ret |-> v]
        save(v) == [answers |-> Put(answers_, field_label_, v), ret |-> v]
        is_fallback == gen.kind = "unresolved"
        auto_answer == IF is_fallback THEN "" ELSE gen.text
        choice == field_type \in {"radio", "select"} /\ options_ # <<>>
    IN  IF gen.kind = "raise"
        THEN IF choice THEN save(options_[1])
             ELSE save(IF Mentions(field_label_, {"experience"}) THEN "2" ELSE "Yes")
        ELSE IF /\ options_ # <<>> /\ auto_answer # "" /\ IsDigit(auto_answer)
                /\ 0 < IntOf(auto_answer) /\ IntOf(auto_answer) <= Len(options_)
        THEN IF is_fallback THEN keep(options_[IntOf(auto_answer)])
             ELSE save(options_[IntOf(auto_answer)])
        ELSE IF /\ options_ # <<>> /\ Len(options_) = 2 /\ auto_answer # ""
                /\ LowerText(auto_answer) \in {"yes", "no"}
                /\ \/ InText("yes", LowerText(options_[1]))
                   \/ InText("no", LowerText(options_[2]))
        THEN LET selected == options_[IF LowerText(auto_answer) = "yes" THEN 1 ELSE 2]
             IN  IF is_fallback THEN keep(selected) ELSE save(selected)
        ELSE IF auto_answer # ""
        THEN IF is_fallback THEN keep(auto_answer) ELSE save(auto_answer)
        ELSE IF choice
        THEN IF /\ Len(options_) = 2
                /\ Mentions(field_label_, {"visa", "sponsor"})
                /\ FirstWith(options_, "no") # 0
             THEN keep(options_[FirstWith(options_, "no")])
             ELSE keep(options_[1])
        ELSE IF field_type \in {"text", "textarea"}
        THEN keep(IF Mentions(field_label_, {"experience"}) THEN "2" ELSE GenericText)
        ELSE save(IF field_type \in {"radio", "select"} THEN "Yes" ELSE "2")

\* The stored answer the select processor finds by itself (lines 35-45):
\* the identical key, else the first key equal ignoring case, else None.
StoredFor(answers_, field_label_) ==
    IF HasKey(answers_, field_label_) THEN Lookup(answers_, field_label_)
    ELSE LET hits == SameIgnoringCase(answers_, field_label_)
         IN  IF hits = {} THEN None
             ELSE answers_[CHOOSE i \in hits : \A j \in hits : i <= j].value

\* Lines 29-32 of select_processor.py.
critical_keywords ==
    {"legal", "authorization", "authorisation", "visa", "sponsor", "citizen", "work", "right"}

\* Variant: no label is critical.
is_critical_question_Never(field_label_) == FALSE

\* Line 32 of select_processor.py.
is_critical_question(field_label_) == Mentions(field_label_, critical_keywords)

\* The outcome of one processor call: the store afterwards, the number of
\* Oracle calls made, the option selected or text filled in, the value
\* returned ("EOFError": the call raised it), and what the terminal gave.
Outcome(a, n, c, r) ==
    [answers |-> a, calls |-> n, chosen |-> c, ret |-> r, console |-> "unused"]

\* SelectProcessor.process (select_processor.py lines 26-119, 191-193).  d is
\* what the driver does: "ok", "options_raise" (reading the options raises)
\* or "act_raise" (select_option raises).  typed is what the loop on input()
\* of lines 103-115 ends with when it is reached: the numeral of an option,
\* which is stored and selected, or "eof" (the input has ended: EOFError,
\* which nothing catches).
SelectProcess(answers_, field_label_, options_, gen, d, typed) ==
    LET stored == IF is_critical_question(field_label_) THEN None
                  ELSE StoredFor(answers_, field_label_)
        ask == \/ stored = None
               \/ stored \notin Elems(options_)
               \/ is_critical_question(field_label_)
        r == ask_for_input(answers_, field_label_, "select", options_, gen)
        answers1 == IF ask THEN Put(r.answers, field_label_, r.ret) ELSE answers_
        answer1 == IF ask THEN r.ret ELSE stored
        calls == IF ask THEN 1 ELSE 0
    IN  IF d = "options_raise" THEN Outcome(answers_, 0, None, "False")
        ELSE IF options_ = <<>> THEN Outcome(answers_, 0, None, "False")
        ELSE IF answer1 \in Elems(options_)
        THEN IF d = "act_raise" THEN Outcome(answers1, calls, None, "False")
             ELSE Outcome(answers1, calls, answer1, "True")
        ELSE IF typed = "eof"
        THEN [Outcome(answers1, calls, None, "EOFError") EXCEPT !.console = typed]
        ELSE LET \* line 105: index = int(selection) - 1
                 index == CHOOSE k \in 1..Len(options_) : Numerals[k] = typed
                 selected_option == options_[index]
                 answers2 == Put(answers1, field_label_, selected_option)
             IN  [(IF d = "act_raise" THEN Outcome(answers2, calls, None, "False")
                   ELSE Outcome(answers2, calls, selected_option, "True"))
                  EXCEPT !.console = typed]

\* TextInputProcessor.process (text_processor.py lines 113-139, 180-186) for
\* a label that is neither the home-city field nor a cover letter.  d is
\* "ok" or "act_raise" (fill raises).
TextProcess(answers_, field_label_, gen, d) ==
    LET g == get_answer_for_field(answers_, field_label_)
        field_lower == Lower(field_label_)
        years == \/ Contains(field_lower, <<"years of ", "experience">>)
                 \/ Contains(field_lower, <<"years of ", "work ", "experience">>)
                 \/ Contains(field_lower, <<"how many ", "years of ">>)
        ask == /\ g.ret = None /\ ~years
               /\ ~Mentions(field_label_, {"notice period"})
               /\ ~Mentions(field_label_, {"salary"})
        r == ask_for_input(g.answers, field_label_, "text", <<>>, gen)
        answer1 == IF g.ret # None THEN g.ret
                   ELSE IF years THEN "2"
                   ELSE IF Mentions(field_label_, {"notice period"}) THEN "0"
                   ELSE IF Mentions(field_label_, {"salary"}) THEN "30000"
                   ELSE r.ret
        answers1 == Put(IF ask THEN r.answers ELSE g.answers, field_label_, answer1)
        calls == IF ask THEN 1 ELSE 0
    IN  IF d = "act_raise" THEN Outcome(answers1, calls, None, "False")
        ELSE Outcome(answers1, calls, answer1, "True")

\* Lines 563 and 623 of radio_processor.py.
sponsorship_keywords ==
    {"visa", "sponsor", "sponsorship", "require sponsorship",
     "will you in the future require", "work permit"}

\* The option (1-based index) an Oracle response selects in the radio group
\* (lines 592-601 and 653-662), 0 if none.
RadioIndex(options_, gen) ==
    IF gen.kind # "answer" THEN 0
    ELSE IF IsDigit(gen.text) /\ 0 < IntOf(gen.text) /\ IntOf(gen.text) <= Len(options_)
    THEN IntOf(gen.text)
    ELSE LET hits == {i \in 1..Len(options_) :
                         \/ InText(LowerText(gen.text), LowerText(options_[i]))
                         \/ InText(LowerText(options_[i]), LowerText(gen.text))}
         IN  IF hits = {} THEN 0 ELSE CHOOSE i \in hits : \A j \in hits : i <= j

\* RadioGroupProcessor.process_radio_from_group (radio_processor.py lines
\* 451-684).  d is "ok", "count_raise" (counting the radios raises: the
\* count is taken as 0), "options_raise" (reading a radio raises) or
\* "act_raise" (every click on an option fails).
RadioProcess(answers_, field_label_, options_, gen, d) ==
    LET g == get_answer_for_field(answers_, field_label_)
        answer0 == g.ret
        matches == {i \in 1..Len(options_) :
                       \/ LowerText(answer0) = LowerText(options_[i])
                       \/ InText(LowerText(answer0), LowerText(options_[i]))
                       \/ InText(LowerText(options_[i]), LowerText(answer0))}
        first == CHOOSE i \in matches : \A j \in matches : i <= j
        nos == {i \in 1..Len(options_) : LowerText(options_[i]) = "no"}
        no_index == IF nos = {} THEN 0 ELSE CHOOSE i \in nos : \A j \in nos : i <= j
        forced == Mentions(field_label_, sponsorship_keywords) /\ no_index # 0
        idx == RadioIndex(options_, gen)
        \* lines 577-615 and 638-676: the Oracle is asked
        asked == IF gen.kind = "raise" THEN Outcome(g.answers, 1, None, "False")
                 ELSE IF idx # 0 /\ d = "ok"
                 THEN Outcome(Put(g.answers, field_label_, options_[idx]), 1,
                              options_[idx], "True")
                 ELSE Outcome(g.answers, 1, None, "False")
    IN  IF Mentions(field_label_, {"resume", "cv"}) THEN Outcome(answers_, 0, None, "True")
        ELSE IF options_ = <<>> \/ d = "count_raise" THEN Outcome(g.answers, 0, None, "True")
        ELSE IF d = "options_raise" THEN Outcome(g.answers, 0, None, "False")
        ELSE IF answer0 # None
        THEN IF matches # {} /\ d = "ok"
             THEN Outcome(g.answers, 0, options_[first], "True")
             ELSE IF forced /\ d = "ok"
             THEN Outcome(g.answers, 0, options_[no_index], "True")
             ELSE asked
        ELSE IF forced /\ d = "ok"
             THEN Outcome(Put(g.answers, field_label_, options_[no_index]), 0,
                          options_[no_index], "True")
             ELSE asked

\* RadioProcessor.process (radio_processor.py lines 57-328), the resolver of
\* a radio group given as one locator.  d is "ok", "options_raise" (reading
\* a radio raises) or "act_raise" (every click on an option fails).
RadioProcessor_process(answers_, field_label_, options_, gen, d) ==
    LET g == get_answer_for_field(answers_, field_label_)
        answer0 == g.ret
        \* the first option equal to t ignoring case, 0 if none
        IndexOf(t) ==
            LET hits == {i \in 1..Len(options_) : LowerText(options_[i]) = LowerText(t)}
            IN  IF hits = {} THEN 0 ELSE CHOOSE i \in hits : \A j \in hits : i <= j
        yes_index == IndexOf("Yes")
        no_index == IndexOf("No")
        \* _click_radio_option then the store (lines 240-251 and alike)
        Click(i, calls, store) ==
            IF d = "ok"
            THEN Outcome(IF store THEN Put(g.answers, field_label_, options_[i]) ELSE g.answers,
                         calls, options_[i], "True")
            ELSE Outcome(g.answers, calls, None, "False")
        \* lines 116-141: the yes/no heuristics by label
        answer_index ==
            IF Mentions(field_label_, {"disability", "disabled"}) THEN no_index
            ELSE IF Mentions(field_label_, {"commut", "locat", "relocat", "move", "travel"})
            THEN yes_index
            ELSE IF Mentions(field_label_, {"experience", "work", "skill", "qualified",
                                            "eligible"})
            THEN yes_index
            ELSE 0
        \* lines 148-165: the answer preset by label
        preset ==
            IF Mentions(field_label_, sponsorship_keywords \cup {"right to work"}) THEN "No"
            ELSE IF Mentions(field_label_, {"remote", "remote setting", "work from home", "wfh",
                                            "telecommut", "home working", "commut", "locat",
                                            "relocat", "travel", "on-site"})
            THEN "Yes"
            ELSE None
        \* lines 190-222: the Oracle's answer, options_[1] if it fails
        fallback ==
            IF Mentions(field_label_, sponsorship_keywords \cup {"right to work", "non-compete",
                                                                 "competitor"})
            THEN "No"
            ELSE IF Mentions(field_label_, {"remote", "commut", "relocat", "travel"}) THEN "Yes"
            ELSE options_[1]
        ai_answer ==
            IF gen.kind # "answer" THEN fallback
            ELSE IF IsDigit(gen.text) /\ 0 < IntOf(gen.text) /\ IntOf(gen.text) <= Len(options_)
            THEN options_[IntOf(gen.text)]
            ELSE gen.text
        \* lines 224-251: the option of the determined answer, else the first
        Determined(auto_answer, calls) ==
            Click(IF IndexOf(auto_answer) = 0 THEN 1 ELSE IndexOf(auto_answer), calls, TRUE)
        \* lines 253-262: the options a stored answer matches
        matches == {i \in 1..Len(options_) :
                       \/ LowerText(answer0) = LowerText(options_[i])
                       \/ InText(LowerText(answer0), LowerText(options_[i]))
                       \/ InText(LowerText(options_[i]), LowerText(answer0))}
        first == CHOOSE i \in matches : \A j \in matches : i <= j
        sponsor_no == IF Mentions(field_label_, sponsorship_keywords)
                      THEN IndexOf("No") ELSE 0
        idx == RadioIndex(options_, gen)
    IN  IF d = "options_raise" THEN Outcome(g.answers, 0, None, "False")
        ELSE IF options_ = <<>> THEN Outcome(g.answers, 1, None, "False")
        ELSE IF Mentions(field_label_, {"resume", "cv"}) THEN Outcome(g.answers, 0, None, "True")
        ELSE IF /\ Len(options_) = 2 /\ yes_index # 0 /\ no_index # 0 /\ answer_index # 0
        THEN Click(answer_index, 0, FALSE)
        ELSE IF answer0 = None
        THEN IF preset # None THEN Determined(preset, 0)
             ELSE IF Mentions(field_label_, {"non-compete", "competitor",
                                             "confidentiality agreement"})
             THEN Determined("No", 0)
             ELSE Determined(ai_answer, 1)
        ELSE IF matches # {} /\ d = "ok" THEN Outcome(g.answers, 0, options_[first], "True")
        ELSE IF sponsor_no # 0 /\ d = "ok"
        THEN Outcome(g.answers, 0, options_[sponsor_no], "True")
        ELSE IF idx # 0 /\ d = "ok"
        THEN Outcome(Put(g.answers, field_label_, options_[idx]), 1, options_[idx], "True")
        ELSE Outcome(g.answers, 1, None, "False")

(***************************************************************************)
(* The field processors called on a store, one field at a time.            *)
(***************************************************************************)
FieldValues == {"Yes", "No", "2"}

FieldStores ==
    {d \in UNION {[1..n -> [key : FieldLabels, value : FieldValues]] : n \in 0..MaxFieldStore} :
        \A i, j \in 1..Len(d) : i # j => d[i].key # d[j].key}

\* The option texts of a choice field, in the order of the page.
OptionLists ==
    {o \in UNION {[1..n -> OptionTexts] : n \in 0..MaxOptions} :
        \A i, j \in 1..Len(o) : i # j => o[i] # o[j]}

\* answer_generator returns the first number of the response for a choice
\* field and the whole response for a text field.
ChoiceResponses == {Answered(Numerals[k]) : k \in 1..Len(Numerals)} \cup {Unresolved, GeneratorRaises}
TextResponses == {Answered("2"), Answered("Yes"), Unresolved, GeneratorRaises}

InitFields ==
    /\ WizardConstructed
    /\ ledgerOK = <<>>
    /\ ledgerFail = <<>>
    /\ rec = NoRec
    /\ answers \in FieldStores
    /\ field_label = <<>>
    /\ answer = Unasked
    /\ FieldIdle
    /\ SessionIdle

\* One call of a processor on the store: the state keeps the arguments and
\* the outcome.
Called(p, out, field_label_, options_, gen, d) ==
    /\ answers_before' = answers
    /\ answers' = out.answers
    /\ field_label' = field_label_
    /\ processor' = p
    /\ options' = options_
    /\ generated' = IF out.calls = 0 THEN NoGenerated ELSE gen
    /\ driver' = d
    /\ oracle_calls' = out.calls
    /\ chosen' = out.chosen
    /\ processed' = out.ret
    /\ console' = out.console
    /\ UNCHANGED <<checkbox, cover, session>>
    /\ UNCHANGED <<pc, job_data, form, modal, loopVars, successful_applications,
                   failed_applications, fileVars, exc, caught, pending, saveIdx, retval,
                   result, eeLocals, exit_success, eeHist, eeEscaped, trace, rec, answer>>

ProcessSelect ==
    /\ processor = "none"
    /\ \E l \in FieldLabels, o \in OptionLists, gen \in ChoiceResponses,
          d \in {"ok", "options_raise", "act_raise"} :
          \E typed \in {Numerals[k] : k \in 1..Len(o)} \cup {"eof"} :
              LET out == SelectProcess(answers, l, o, gen, d, typed)
              IN  Called("select", out, l, o, gen, d)

ProcessRadio ==
    /\ processor = "none"
    /\ \E l \in FieldLabels, o \in OptionLists, gen \in ChoiceResponses,
          d \in {"ok", "count_raise", "options_raise", "act_raise"} :
           LET out == RadioProcess(answers, l, o, gen, d)
           IN  Called("radio", out, l, o, gen, d)

ProcessText ==
    /\ processor = "none"
    /\ \E l \in FieldLabels, gen \in TextResponses, d \in {"ok", "act_raise"} :
           LET out == TextProcess(answers, l, gen, d)
           IN  Called("text", out, l, <<>>, gen, d)

ProcessRadioButtons ==
    /\ processor = "none"
    /\ \E l \in FieldLabels, o \in OptionLists, gen \in ChoiceResponses,
          d \in {"ok", "options_raise", "act_raise"} :
           LET out == RadioProcessor_process(answers, l, o, gen, d)
           IN  Called("radio_buttons", out, l, o, gen, d)

\* CheckboxProcessor.process (checkbox_processor.py lines 38-104): the state
\* of the first checkbox after the call and the value returned.  The first
\* checkbox is checked or not (c); a click on the box or on its label
\* toggles it (~c), check() leaves it checked, uncheck() unchecked.
\*   label : "none" (the box has no id or no label element), "ok" (the click
\*           on the label succeeds) or "raise" (it raises)
\*   html  : "single" if the box's outerHTML holds type='checkbox', "double"
\*           if it holds type="checkbox"
\*   d     : "ok" (check / uncheck / click succeeds), "js" (it raises and the
\*           scripted click succeeds), "fail" (both raise) or "checked_raise"
\*           (is_checked raises)
CheckboxProcess(answers_, field_label_, c, label, html, d) ==
    LET g == get_answer_for_field(answers_, field_label_)
        answer0 == g.ret
        Ret(after, r) == [answers |-> g.answers, after |-> after, ret |-> r]
    IN  IF label = "ok" THEN Ret(~c, "True")
        ELSE IF answer0 = None \/ LowerText(answer0) \in {"yes", "true", "1"}
        THEN IF d \in {"ok", "checked_raise"}
             THEN Ret(IF html = "single" THEN TRUE ELSE ~c, "True")
             ELSE IF d = "js" THEN Ret(~c, "True")
             ELSE Ret(c, "True")
        ELSE IF LowerText(answer0) \in {"no", "false", "0"}
        THEN IF d = "checked_raise" THEN Ret(c, "False")
             ELSE IF ~c THEN Ret(c, "True")
             ELSE IF d = "ok" THEN Ret(IF html = "single" THEN FALSE ELSE ~c, "True")
             ELSE IF d = "js" THEN Ret(~c, "True")
             ELSE Ret(c, "True")
        ELSE Ret(c, "True")

ProcessCheckbox ==
    /\ processor = "none"
    /\ \E l \in FieldLabels, c \in BOOLEAN, label \in {"none", "ok", "raise"},
          html \in {"single", "double"}, d \in {"ok", "js", "fail", "checked_raise"} :
           LET out == CheckboxProcess(answers, l, c, label, html, d)
           IN  /\ answers_before' = answers
               /\ answers' = out.answers
               /\ field_label' = l
               /\ processor' = "checkbox"
               /\ driver' = d
               /\ checkbox' = [before |-> c, after |-> out.after, label |-> label,
                               html |-> html]
               /\ processed' = out.ret
    /\ UNCHANGED <<pc, job_data, form, modal, loopVars, successful_applications,
                   failed_applications, fileVars, exc, caught, pending, saveIdx, retval,
                   result, eeLocals, exit_success, eeHist, eeEscaped, trace, rec, answer,
                   options, generated, oracle_calls, chosen, console, cover, session>>

NextFields ==
    \/ ProcessSelect
    \/ ProcessRadio
    \/ ProcessRadioButtons
    \/ ProcessText
    \/ ProcessCheckbox

SpecFields == InitFields /\ [][NextFields]_vars

\* C11: a select field whose label contains a critical keyword, and whose
\* options could be read, asks the Oracle exactly once in every call, whatever
\* the store holds; the option selected is the one the Oracle's resolution
\* gives, or the one typed at the console when that resolution is none of
\* the options, never the stored one.
C11_CriticalSelectAlwaysAsks ==
    (/\ processor = "select"
     /\ Mentions(field_label, critical_keywords)
     /\ options # <<>>
     /\ driver # "options_raise")
    => /\ oracle_calls = 1
       /\ console = "unused"
             => chosen \in {None, ask_for_input(answers_before, field_label, "select",
                                                options, generated).ret}
       /\ console # "unused"
             => ask_for_input(answers_before, field_label, "select",
                              options, generated).ret \notin Elems(options)

\* The store held "Yes" for "visa sponsorship", "Yes" was an option, the
\* Oracle was asked and "No" was selected.
C11_Witness ==
    /\ processor = "select"
    /\ field_label = <<"visa ", "sponsorship">>
    /\ HasKey(answers_before, field_label)
    /\ Lookup(answers_before, field_label) = "Yes"
    /\ options = <<"Yes", "No">>
    /\ oracle_calls = 1
    /\ chosen = "No"
    /\ processed = "True"

\* C12 (as claimed): a radio group whose label contains a critical keyword,
\* and whose options could be read and clicked, asks the Oracle or selects
\* the forced default "No" of a sponsorship question in every call; it never
\* selects an option because the store holds it.
C12_CriticalRadioNeverUsesStored ==
    (/\ processor = "radio"
     /\ Mentions(field_label, critical_keywords)
     /\ options # <<>>
     /\ driver = "ok")
    => \/ oracle_calls = 1
       \/ /\ Mentions(field_label, sponsorship_keywords)
          /\ chosen = "No"

\* C13: when the Oracle is asked about a choice field with options o1..oN
\* and responds with the numeral k, 1 <= k <= N, the answer is option ok: no
\* other option is selected, and when the driver accepts the selection ok is
\* selected and stored under the label.
C13_NumeralIsOneBasedIndex ==
    \A k \in 1..Len(options) :
        (/\ processor \in {"select", "radio"}
         /\ oracle_calls = 1
         /\ generated = Answered(Numerals[k]))
        => /\ chosen \in {None, options[k]}
           /\ driver = "ok" => /\ chosen = options[k]
                               /\ processed = "True"
                               /\ HasKey(answers, field_label)
                               /\ Lookup(answers, field_label) = options[k]

\* The Oracle answered "2" about a radio group with options "Yes", "No" and
\* "No" was selected.
C13_Witness ==
    /\ processor = "radio"
    /\ options = <<"Yes", "No">>
    /\ oracle_calls = 1
    /\ generated = Answered("2")
    /\ chosen = "No"
    /\ Lookup(answers, field_label) = "No"

\* C14 (as claimed): when the Oracle is asked and cannot resolve the question,
\* the call leaves the store as it was: the default applied to the field is
\* not stored.  (A years-of-experience label is left out: the lookup itself
\* stores "2" under it.)
C14_UnresolvedNotStored ==
    (/\ processor \in {"text", "select", "radio"}
     /\ oracle_calls = 1
     /\ generated = Unresolved
     /\ ~IsYearsOfExperience(field_label))
    => answers = answers_before

(***************************************************************************)
(* The submission, the duplicate check and the search for a continue       *)
(* control in start_application.                                           *)
(***************************************************************************)
\* C16 (as claimed): an attempt on a form whose Submit control cannot be
\* clicked by any of the three strategies invokes Emergency Exit once and
\* ends as a failure whose reason is the failed click of the Submit control.
C16_SubmitClickFailureIsFailure ==
    (pc = "done" /\ SawForm /\ form.submit /\ form.submit_click = "fails")
        => /\ result = APPLICATION_FAILURE
           /\ EECalls = 1
           /\ LastFailure.reason.text = "Error clicking Submit button"

\* C17 (as claimed): an attempt whose Submit control was clicked returns
\* success if a Done control is then shown inside the modal or, failing
\* that, elsewhere on the page; if there is none it invokes Emergency Exit
\* and fails with "No Done button after submission".
C17_DoneAfterSubmit ==
    (pc = "done" /\ SawForm /\ form.submit /\ form.submit_click = "ok")
        => IF form.done \in {"modal", "page"}
           THEN result = APPLICATION_SUCCESS
           ELSE /\ result = APPLICATION_FAILURE
                /\ EECalls = 1
                /\ LastFailure.reason.text = "No Done button after submission"

\* C19 (as claimed): on a form whose content never changes and that offers
\* no button the wizard has not clicked before, the duplicate count reaches
\* max_duplicates, and the wizard then invokes Emergency Exit and fails with
\* "Infinite loop detected" at the step it stands on.
C19_NoAlternateIsLoopFailure ==
    (pc = "done" /\ SawForm /\ form.static)
        => /\ duplicate_form_count >= max_duplicates
           /\ result = APPLICATION_FAILURE
           /\ LastFailure.reason.text = "Infinite loop detected in application form at step"
           /\ LastFailure.reason.step = step_count + 1

\* C20 (as claimed): on a form that shows a continue control and changes
\* when it is clicked, the search clicks the first candidate found and the
\* click is paid for by an increment of step_count.
C20_ContinueClickAdvances ==
    (pc = "done" /\ SawForm /\ form.next /\ form.next_click = "ok" /\ ~form.static)
        => /\ step_count >= 1
           /\ Iterations = step_count + 1

\* C21 (as claimed): a continue control that only a scripted click through a
\* page-level query can operate is clicked all the same, by the third
\* strategy of the escalation, and the wizard moves to the next step.
C21_ContinueClickEscalates ==
    (pc = "done" /\ SawForm /\ form.next /\ form.next_click = "page_level")
        => step_count >= 1

\* C22 (as claimed): an iteration whose continue candidates all fail to click
\* adds exactly 1 to stuck_detection_count, however many candidates failed.
C22_OneStuckPerFailedIteration ==
    (pc = "done" /\ SawForm /\ form.next /\ form.next_click = "fails")
        => stuck_detection_count = 1

\* C24 (as claimed): on a form that shows a clickable continue control and
\* new content on every step, and never a Submit control, the wizard clicks
\* max_steps times, then invokes Emergency Exit once and fails with "Reached
\* max step count".
C24_MaxStepsIsFailure ==
    (pc = "done" /\ SawForm /\ ~form.submit /\ form.next /\ form.next_click = "ok"
                 /\ ~form.static)
        => /\ step_count = max_steps
           /\ result = APPLICATION_FAILURE
           /\ LastFailure.reason.text = "Reached max step count"
           /\ EECalls = 1

\* C25 (as claimed): an iteration that has stored the job for the field
\* processors runs the form step processor and goes on to the search for a
\* Submit or continue control: processing the fields never ends the attempt.
C25_FieldsNeverEndAttempt ==
    [][pc = "ProcessFields" => pc' = "RunForm"]_vars

EntryClicks == Count(trace, "EntryClick")

\* C26: when the caller says the entry control has been clicked the wizard
\* neither locates nor clicks it; otherwise it clicks the first match at most
\* once, exactly once before the first iteration of the step loop, and when
\* it has located the control and found none it has clicked nothing, invoked
\* no Emergency Exit and returned failure "No Easy Apply button found".
C26_EntryControl ==
    /\ job_data.easy_apply_clicked
          => /\ Count(trace, "Locate") = 0
             /\ EntryClicks = 0
    /\ EntryClicks <= 1
    /\ (~job_data.easy_apply_clicked /\ Iterations >= 1)
          => /\ Len(trace) >= 3
             /\ SubSeq(trace, 1, 3) = <<"Locate", "EntryClick", "Iteration">>
    /\ (Count(trace, "Locate") = 1 /\ EntryClicks = 0 /\ exc = NoExc /\ caught = NoExc)
          => /\ pc = "done"
             /\ result = APPLICATION_FAILURE
             /\ LastFailure.reason.text = "No Easy Apply button found"
             /\ EECalls = 0

\* The entry control was clicked once and the step loop has begun.
C26_Witness ==
    /\ ~job_data.easy_apply_clicked
    /\ EntryClicks = 1
    /\ Iterations = 1
    /\ pc = "DetectModal"

\* C27 (as claimed): when start_application returns the failure outcome, the
\* job's id is in the failed ledger.
C27_FailureIsInLedger ==
    (pc = "done" /\ result = APPLICATION_FAILURE)
        => JobIdOf(job_data) \in Elems(ledgerFail)

\* C28 (as claimed): in one call Emergency Exit is invoked at most once and at
\* most one outcome record is appended, even when recording raises.
C28_OneExitOneRecord ==
    /\ EECalls <= 1
    /\ Len(failed_applications) + Len(successful_applications) <= 1

\* C29 (as claimed): an attempt whose form shows a Submit control ends in its
\* first iteration, without a continue click, with success or failure.
C29_SubmitIterationIsTerminal ==
    (pc = "done" /\ SawForm /\ form.submit)
        => /\ Iterations = 1
           /\ step_count = 0
           /\ result \in {APPLICATION_SUCCESS, APPLICATION_FAILURE}

\* C30 (as claimed): start_application never hands back the incomplete
\* outcome: every attempt that has ended has ended as success or as failure.
C30_EndsAsSuccessOrFailure ==
    /\ retval # APPLICATION_INCOMPLETE
    /\ pc = "done" => result \in {APPLICATION_SUCCESS, APPLICATION_FAILURE}

\* C31 (as claimed): Emergency Exit returns true only after a close strategy
\* reported its click and the form container was verified absent; without a
\* reported close click it returns false and attempts neither discard nor
\* verification; and with a reported close click and the container gone, a
\* failure in the discard step alone does not make it return false.
C31_ExitResultAsClaimed ==
    pc = "Record"
        => /\ exit_success = TRUE
                 => (close_success /\ ~modal /\ "verify" \in eeUi)
           /\ ~close_success
                 => (exit_success = FALSE /\ eeUi \cap {"discard_step", "verify"} = {})
           /\ (close_success /\ ~modal /\ "verify_raised" \notin eeUi)
                 => exit_success = TRUE

\* C32 (as claimed): after the select processor has asked the Oracle about a
\* field, the value the store holds under the field's label is the text of
\* one of the field's options.
C32_SelectStoresOptionText ==
    (processor = "select" /\ oracle_calls = 1)
        => /\ HasKey(answers, field_label)
           /\ Lookup(answers, field_label) \in Elems(options)

\* C33 (as claimed): processing a select field never asks the console.
C33_SelectNeverPrompts ==
    processor = "select" => console = "unused"

\* C34 (as claimed): when a radio resolver has asked the Oracle and the
\* response matches none of the options, it selects nothing, stores nothing
\* and reports failure.  (A years-of-experience label is left out: the lookup
\* itself stores "2" under it.)
C34_UnmatchedRadioIsFailure ==
    (/\ processor \in {"radio", "radio_buttons"}
     /\ oracle_calls = 1
     /\ options # <<>>
     /\ RadioIndex(options, generated) = 0
     /\ ~IsYearsOfExperience(field_label))
    => /\ chosen = None
       /\ processed = "False"
       /\ answers = answers_before

\* C35 (as claimed): when the store holds for a radio group an answer equal,
\* ignoring case, to the text of exactly one option, and the options can be
\* read and clicked, a radio resolver selects that option.
C35_StoredAnswerSelectsItsOption ==
    \A i \in 1..Len(options) :
        (/\ processor \in {"radio", "radio_buttons"}
         /\ driver = "ok"
         /\ HasKey(answers_before, field_label)
         /\ LowerText(Lookup(answers_before, field_label)) = LowerText(options[i])
         /\ \A j \in 1..Len(options) :
               LowerText(options[j]) = LowerText(options[i]) => j = i)
        => chosen = options[i]

\* C36 (as claimed): after the checkbox processor has run with a resolved
\* answer yes/true/1, and its clicks went through, the first checkbox is
\* checked; with a resolved no/false/0 it is unchecked; whatever its state
\* was before.
C36_CheckboxIsBoolean ==
    (processor = "checkbox" /\ driver \in {"ok", "js"} /\ checkbox.label # "raise")
        => LET answer0 == get_answer_for_field(answers_before, field_label).ret
           IN  /\ (answer0 # None /\ LowerText(answer0) \in {"yes", "true", "1"})
                     => checkbox.after = TRUE
               /\ (answer0 # None /\ LowerText(answer0) \in {"no", "false", "0"})
                     => checkbox.after = FALSE

(***************************************************************************)
(* Cover letters: generate_cover_letter and the cover-letter branches of   *)
(* the text and textarea processors.                                       *)
(*                                                                         *)
(* A request to the completion service ends in one of:                     *)
(*   "failure"     requests.post or raise_for_status raises a              *)
(*                 RequestException;                                       *)
(*   "no_choices"  the response carries no choices;                        *)
(*   "short"       a letter of fewer than 50 characters;                   *)
(*   "medium"      a letter of 50 to 99 characters;                        *)
(*   "long"        a letter of 100 characters or more.                     *)
(***************************************************************************)
max_retries == 3

RequestSequences ==
    [1..max_retries -> {"failure", "no_choices", "short", "medium", "long"}]

\* The letter a response carries, and the template of
\* generate_fallback_cover_letter.
LetterOf(o) ==
    CASE o = "short"  -> "short letter"
      [] o = "medium" -> "medium letter"
      [] o = "long"   -> "long letter"
FallbackLetter == "fallback letter"

\* generate_cover_letter (cover_letter_generator.py lines 120-200), from the
\* attempt numbered attempt (0-based) on: the value returned and the number
\* of the last request made.  The break of line 182 leaves the loop; no
\* statement follows the loop in the try block and none follows the try
\* statement, so the function then returns None.
RECURSIVE Attempt(_, _)
Attempt(requests, attempt) ==
    LET o == requests[attempt + 1]
        Ret(v) == [ret |-> v, made |-> attempt + 1]
    IN  IF o = "failure"
        THEN IF attempt < max_retries - 1 THEN Attempt(requests, attempt + 1)
             ELSE Ret(FallbackLetter)
        ELSE IF o = "no_choices" THEN Ret(FallbackLetter)
        ELSE IF o = "short" /\ attempt < max_retries - 1 THEN Attempt(requests, attempt + 1)
        ELSE IF attempt >= 2 /\ o = "long" THEN Ret(None)
        ELSE Ret(LetterOf(o))

generate_cover_letter(requests) == Attempt(requests, 0)

CoverLabels == {<<"cover ", "letter">>, <<"Cover ", "letter">>}
CoverStores ==
    {<<>>} \cup {<<[key |-> k, value |-> v]>> :
                    k \in CoverLabels, v \in {"@file:cover_letter.pdf", "stored letter"}}

\* job is answers['current_job_data'] at the time of the call: "absent" (no
\* such key), "empty" (an empty dict) or "present".  The processor's own
\* job_data is the empty dict of base.py line 16.
\*
\* The outcome of a processor call on a cover-letter field: that of Outcome,
\* with the requests made and the letter generated ("none": the generator
\* was not called).
CoverOutcome(a, n, c, r, requests, gl) ==
    [answers |-> a, calls |-> n, chosen |-> c, ret |-> r,
     requests |-> IF gl = NoCover THEN <<>> ELSE SubSeq(requests, 1, gl.made),
     letter |-> IF gl = NoCover THEN "none" ELSE gl.ret]

\* TextInputProcessor.process (text_processor.py lines 113-186) for a label
\* that holds "cover letter".  d is "ok" or "act_raise" (every fill raises);
\* fill(None) raises in either case.
CoverTextProcess(answers_, field_label_, job, requests, gen, d) ==
    LET g == get_answer_for_field(answers_, field_label_)
        ask == g.ret = None
        r == ask_for_input(g.answers, field_label_, "text", <<>>, gen)
        answer1 == IF ask THEN r.ret ELSE g.ret
        answers1 == Put(IF ask THEN r.answers ELSE g.answers, field_label_, answer1)
        calls == IF ask THEN 1 ELSE 0
        generate == answer1 = "@file:cover_letter.pdf" /\ job = "present"
        gl == IF generate THEN generate_cover_letter(requests) ELSE NoCover
    IN  IF generate /\ gl.ret # None /\ d = "ok"
        THEN CoverOutcome(Put(answers1, <<"used_cover">>, "True"), calls, gl.ret, "True",
                          requests, gl)
        ELSE IF d = "act_raise"
        THEN CoverOutcome(answers1, calls, None, "False", requests, gl)
        ELSE CoverOutcome(answers1, calls, answer1, "True", requests, gl)

\* TextareaProcessor.process (text_processor.py lines 206-302) for a label
\* that holds "cover letter".  "raise": line 253 reads the job data that is
\* None, and the AttributeError leaves the call.
CoverTextareaProcess(answers_, field_label_, job, requests, gen, d) ==
    LET g == get_answer_for_field(answers_, field_label_)
        ask == g.ret = None
        r == ask_for_input(g.answers, field_label_, "textarea", <<>>, gen)
        answer1 == IF ask THEN r.ret ELSE g.ret
        answers1 == Put(IF ask THEN r.answers ELSE g.answers, field_label_, answer1)
        calls == IF ask THEN 1 ELSE 0
        gl == IF job = "present" THEN generate_cover_letter(requests) ELSE NoCover
    IN  IF job = "absent" THEN CoverOutcome(answers1, calls, None, "raise", requests, gl)
        ELSE IF job = "present" /\ gl.ret # None /\ d = "ok"
        THEN CoverOutcome(Put(Put(answers1, <<"used_cover">>, "True"), field_label_, gl.ret),
                          calls, gl.ret, "True", requests, gl)
        ELSE IF d = "act_raise"
        THEN CoverOutcome(answers1, calls, None, "False", requests, gl)
        ELSE CoverOutcome(answers1, calls, "", "True", requests, gl)

InitCover ==
    /\ WizardConstructed
    /\ ledgerOK = <<>>
    /\ ledgerFail = <<>>
    /\ rec = NoRec
    /\ answers \in CoverStores
    /\ field_label = <<>>
    /\ answer = Unasked
    /\ FieldIdle
    /\ SessionIdle

CoverCalled(p, out, field_label_, job, gen, d) ==
    /\ answers_before' = answers
    /\ answers' = out.answers
    /\ field_label' = field_label_
    /\ processor' = p
    /\ generated' = IF out.calls = 0 THEN NoGenerated ELSE gen
    /\ driver' = d
    /\ oracle_calls' = out.calls
    /\ chosen' = out.chosen
    /\ processed' = out.ret
    /\ cover' = [job |-> job, requests |-> out.requests, letter |-> out.letter]
    /\ UNCHANGED <<options, console, checkbox, session>>
    /\ UNCHANGED <<pc, job_data, form, modal, loopVars, successful_applications,
                   failed_applications, fileVars, exc, caught, pending, saveIdx, retval,
                   result, eeLocals, exit_success, eeHist, eeEscaped, trace, rec, answer>>

ProcessCoverText ==
    /\ processor = "none"
    /\ \E l \in CoverLabels, job \in {"absent", "empty", "present"}, requests \in RequestSequences,
          gen \in TextResponses, d \in {"ok", "act_raise"} :
           CoverCalled("text", CoverTextProcess(answers, l, job, requests, gen, d),
                       l, job, gen, d)

ProcessCoverTextarea ==
    /\ processor = "none"
    /\ \E l \in CoverLabels, job \in {"absent", "empty", "present"}, requests \in RequestSequences,
          gen \in TextResponses, d \in {"ok", "act_raise"} :
           CoverCalled("textarea", CoverTextareaProcess(answers, l, job, requests, gen, d),
                       l, job, gen, d)

NextCover == ProcessCoverText \/ ProcessCoverTextarea

SpecCover == InitCover /\ [][NextCover]_vars

\* C37 (as claimed): when the text or textarea processor has filled a field
\* whose label holds "cover letter", the text in the field is the letter
\* the cover-letter generator returned in this call; it is not the answer
\* the store held for the label before the call.
C37_CoverLetterIsFresh ==
    (processor \in {"text", "textarea"} /\ processed = "True"
     /\ Contains(Lower(field_label), <<"cover ", "letter">>))
        => /\ cover.letter \notin {"none", None}
           /\ chosen = cover.letter
           /\ chosen # get_answer_for_field(answers_before, field_label).ret

\* C38 (as claimed): whenever the cover-letter generator has been called,
\* whatever its requests ended in, it has returned a string, a generated
\* letter or the template; and the call of the processor has neither
\* failed nor left the field empty.
C38_GeneratorYieldsString ==
    (processor \in {"text", "textarea"} /\ cover.letter # "none" /\ driver = "ok")
        => /\ cover.letter \in {LetterOf(o) : o \in {"short", "medium", "long"}}
                                  \cup {FallbackLetter}
           /\ processed = "True"
           /\ chosen = cover.letter

\* No two keys of the store d are equal ignoring case.
KeysUniqueIgnoringCase(d) ==
    \A i, j \in 1..Len(d) : Lower(d[i].key) = Lower(d[j].key) => i = j

\* C39 (as claimed): a field resolution that starts from a store whose keys
\* are pairwise different ignoring case leaves a store whose keys are
\* pairwise different ignoring case.
C39_KeysUniquePerFoldedLabel ==
    (processor # "none" /\ KeysUniqueIgnoringCase(answers_before))
        => KeysUniqueIgnoringCase(answers)

(***************************************************************************)
(* Session persistence: CookieManager of browser/context.py.               *)
(*                                                                         *)
(* Two threads call save_cookies on the one manager: "main" (the login     *)
(* save, save_cookies_now of the wizard, the exit hook) and "periodic"     *)
(* (the daemon thread of _periodic_save_worker).  A call is a sequence of  *)
(* steps, and the steps of the two threads interleave in every order:      *)
(*   "acquire"  before `with self._save_lock`, waiting for the lock;       *)
(*   "locked"   inside the with block, before storage_state;               *)
(*   "writing"  storage_state is writing the file;                         *)
(*   "release"  leaving the with block.                                    *)
(* Between calls "main" is "idle" and "periodic" is "waiting" in           *)
(* Event.wait, or "stopped" once its loop has ended.  Time is in seconds.  *)
(***************************************************************************)
InitSession ==
    /\ WizardConstructed
    /\ ledgerOK = <<>>
    /\ ledgerFail = <<>>
    /\ rec = NoRec
    /\ answers = <<>>
    /\ field_label = <<>>
    /\ answer = Unasked
    /\ FieldIdle
    /\ session = SessionConstructed

NextSession ==
    \/ MainSave
    \/ StartPeriodic
    \/ StopPeriodic
    \/ PeriodicWake
    \/ Acquire
    \/ WriteBegin
    \/ WriteEnd
    \/ Release
    \/ Tick

SpecSession == InitSession /\ [][NextSession]_vars

\* The threads that are writing the session state.
Writers == {t \in Threads : session.pc[t] = "writing"}

\* C40: at any time at most one thread is writing the session state, and
\* the thread that writes holds the lock: a save of the periodic thread and
\* a save of the main flow never overlap.
C40_OneWriterAtATime ==
    session.constructed
        => /\ Cardinality(Writers) <= 1
           /\ \A t \in Writers : session.save_lock = t

\* C40 witness: one thread is writing the session state while the other
\* has called save_cookies and waits for the lock.
C40_Witness ==
    /\ session.constructed
    /\ \E t, u \in Threads : session.pc[t] = "writing" /\ session.pc[u] = "acquire"

====
